---- MODULE Spec2Model ----
(***************************************************************************)
(* Host-side reconstruction engine of rustmeter (rustmeter-cli/src/tracing) *)
(* as a state machine: TracingInstance -> CoreTracing -> ExecutorTracing   *)
(* -> TaskTracing, driven by decoded TracingItems.                          *)
(*                                                                         *)
(* Conventions                                                             *)
(*  - A VecDeque is a sequence: front = Head, back = last element.          *)
(*  - A HashMap is a function; its DOMAIN is the key set.                   *)
(*  - An Option is a set with at most one element.                          *)
(*  - A handler returning anyhow::Result<()> is an operator returning a     *)
(*    record with the mutated object, the records sent to the trace sink    *)
(*    (out) and the flag err (TRUE = Err, the `?` early return).            *)
(*  - HashMap iteration order is unspecified: every `find` over a map takes *)
(*    its result as a parameter that the action chooses with \E.            *)
(*  - The fields state_start of ExecutorTracing and TaskTracing are written *)
(*    by the constructors and by transition_to and read nowhere; they are   *)
(*    not part of the state.                                                *)
(***************************************************************************)
EXTENDS Integers, Sequences, FiniteSets, TLC

(***************************************************************************)
(* Bounds of the model                                                     *)
(***************************************************************************)
\* number of TracingItems fed to one engine
MaxEvents == 5
\* deepest monitor nesting the fed stream produces in one context
MaxMonitorDepth == 2
\* number of items fed before the engine is dropped
MaxEventsBeforeDrop == 4
\* number of feed calls made on one decoder
MaxFeeds == 4

\* short executor ids (u3) and compressed task ids (u16) used by the stream
ExecIds == {1, 2}
TaskIds == {1, 2}
\* long (32-bit) task addresses carried by type definitions
LongTaskIds == {4, 8}
CoreIds == {0, 1}
\* code monitor ids (u8) and the scope names their type definitions carry
MonitorIds == {1, 2}
MonitorName(m) == IF m = 1 THEN "a" ELSE "b"
\* time deltas (microseconds) between two consecutive items
Deltas == {10}

(***************************************************************************)
(* Program constants                                                       *)
(***************************************************************************)
\* pid of the "Core Overview" process: u32::MAX - 1, written as the signed reading
\* of its 32-bit pattern (the checker's integers are 32-bit signed)
CoreOverviewPid == -2
\* the constant that monitor_end subtracts from the duration of a core-level monitor
MonitorEndOffset == 30
\* tid of an executor's own lane
ExecutorLaneTid == 0

(***************************************************************************)
(* Trace sink records (perfetto_backend::trace_event::TracingEvent)        *)
(***************************************************************************)
TracingEvent(ph, name, pid, tid, ts, dur) ==
    [ph |-> ph, name |-> name, pid |-> pid, tid |-> tid, ts |-> ts, dur |-> dur]
Begin(name, pid, tid, ts) == TracingEvent("B", name, pid, tid, ts, 0)
EndNamed(name, pid, tid, ts) == TracingEvent("E", name, pid, tid, ts, 0)
End(pid, tid, ts) == EndNamed("None", pid, tid, ts)
Complete(name, pid, tid, ts, dur) == TracingEvent("X", name, pid, tid, ts, dur)

Digit == [i \in 0..9 |-> CASE i = 0 -> "0" [] i = 1 -> "1" [] i = 2 -> "2" [] i = 3 -> "3"
                           [] i = 4 -> "4" [] i = 5 -> "5" [] i = 6 -> "6" [] i = 7 -> "7"
                           [] i = 8 -> "8" [] OTHER -> "9"]

\* the only element of an Option that is Some
The(opt) == CHOOSE x \in opt : TRUE
\* the possible results of `find` over a set of candidates
Find(S) == IF S = {} THEN {{}} ELSE {{x} : x \in S}

\* the decimal digits of a number, as `{}` formats it
RECURSIVE Decimal(_)
Decimal(n) == IF n < 10 THEN Digit[n] ELSE Decimal(n \div 10) \o Digit[n % 10]

RECURSIVE Reverse(_)
Reverse(s) == IF s = <<>> THEN <<>> ELSE Append(Reverse(Tail(s)), Head(s))

(***************************************************************************)
(* TaskTracing (task.rs)                                                   *)
(***************************************************************************)
TaskSpawned == [k |-> "Spawned"]
TaskReady == [k |-> "Ready"]
TaskRunning == [k |-> "Running"]
TaskPreempted(by) == [k |-> "Preempted", by_executor_id |-> by]
TaskIdle == [k |-> "Idle"]
TaskEnded == [k |-> "Ended"]
TaskStreamDesynchronized == [k |-> "StreamDesynchronized"]

TaskState_to_string(s) ==
    IF s.k = "Preempted" THEN "Preempted (by " \o Digit[s.by_executor_id] \o ")" ELSE s.k

\* the three constructors: an End for the previous state, no Begin
TaskTracing_new(executor_id, task_id, state, state_start) ==
    [t |-> [state |-> state,
            reawoken_while_running |-> FALSE,
            current_monitors |-> <<>>,
            preempted_monitors |-> <<>>],
     out |-> <<End(executor_id, task_id, state_start)>>]
TaskTracing_new_spawned(executor_id, task_id, state_start) ==
    TaskTracing_new(executor_id, task_id, TaskSpawned, state_start)
TaskTracing_new_ready(executor_id, task_id, state_start) ==
    TaskTracing_new(executor_id, task_id, TaskReady, state_start)
TaskTracing_new_exec_begin(executor_id, task_id, state_start) ==
    TaskTracing_new(executor_id, task_id, TaskRunning, state_start)

TaskOk(t, out) == [t |-> t, out |-> out, err |-> FALSE]
TaskErr(t) == [t |-> t, out |-> <<>>, err |-> TRUE]

TaskTracing_transition_to(eid, tid, t, new_state, timestamp) ==
    IF t.state # new_state
    THEN [t |-> [t EXCEPT !.state = new_state],
          out |-> <<End(eid, tid, timestamp),
                    Begin(TaskState_to_string(new_state), eid, tid, timestamp)>>]
    ELSE [t |-> t, out |-> <<>>]

\* Complete records of a drained monitor deque, front to back
CompleteAll(monitors, pid, tid, timestamp) ==
    [i \in 1..Len(monitors) |->
        Complete(monitors[i].name, pid, tid, monitors[i].ts, timestamp - monitors[i].ts)]
Names(monitors) == [i \in 1..Len(monitors) |-> monitors[i].name]
Restarted(names, timestamp) == [i \in 1..Len(names) |-> [name |-> names[i], ts |-> timestamp]]

\* variant of on_desynchronize that drops the open monitors without completing them
TaskTracing_on_desynchronize_dropping(eid, tid, t, timestamp) ==
    LET tr == TaskTracing_transition_to(eid, tid, t, TaskStreamDesynchronized, timestamp)
    IN  [t |-> [tr.t EXCEPT !.current_monitors = <<>>], out |-> tr.out]

TaskTracing_on_desynchronize(eid, tid, t, timestamp) ==
    LET tr == TaskTracing_transition_to(eid, tid, t, TaskStreamDesynchronized, timestamp)
    IN  [t |-> [tr.t EXCEPT !.current_monitors = <<>>],
         out |-> tr.out \o CompleteAll(t.current_monitors, eid, tid, timestamp)]

TaskTracing_on_ready(eid, tid, t, timestamp) ==
    IF t.state.k \in {"Spawned", "Idle"}
    THEN LET tr == TaskTracing_transition_to(eid, tid, t, TaskReady, timestamp)
         IN  TaskOk([tr.t EXCEPT !.reawoken_while_running = FALSE], tr.out)
    ELSE IF t.state.k \in {"Running", "Preempted"}
    THEN TaskOk([t EXCEPT !.reawoken_while_running = TRUE], <<>>)
    ELSE TaskErr(t)

TaskTracing_on_exec_begin(eid, tid, t, timestamp) ==
    IF t.state.k = "Ready"
    THEN LET tr == TaskTracing_transition_to(eid, tid, t, TaskRunning, timestamp)
         IN  TaskOk(tr.t, tr.out)
    ELSE TaskErr(t)

\* variant of on_exec_end that ignores the re-awoken flag
TaskTracing_on_exec_end_to_idle(eid, tid, t, timestamp) ==
    IF t.state.k = "Running"
    THEN LET tr == TaskTracing_transition_to(eid, tid, t, TaskIdle, timestamp)
         IN  TaskOk([tr.t EXCEPT !.reawoken_while_running = FALSE], tr.out)
    ELSE TaskErr(t)

TaskTracing_on_exec_end(eid, tid, t, timestamp) ==
    IF t.state.k = "Running"
    THEN LET tr == TaskTracing_transition_to(eid, tid, t,
                       IF t.reawoken_while_running THEN TaskReady ELSE TaskIdle, timestamp)
         IN  TaskOk([tr.t EXCEPT !.reawoken_while_running = FALSE], tr.out)
    ELSE TaskErr(t)

TaskTracing_on_end(eid, tid, t, timestamp) ==
    IF t.state.k = "Running"
    THEN LET tr == TaskTracing_transition_to(eid, tid, t, TaskEnded, timestamp)
         IN  TaskOk(tr.t, tr.out)
    ELSE TaskErr(t)

\* drain(..) front to back, push_front of each name: the names end up reversed
TaskTracing_on_preempted(eid, tid, t, timestamp, by_executor_id) ==
    IF t.state.k = "Running"
    THEN LET tr == TaskTracing_transition_to(eid, tid, t, TaskPreempted(by_executor_id), timestamp)
         IN  TaskOk([tr.t EXCEPT !.current_monitors = <<>>,
                                 !.preempted_monitors =
                                     Reverse(Names(t.current_monitors)) \o t.preempted_monitors],
                    tr.out \o CompleteAll(t.current_monitors, eid, tid, timestamp))
    ELSE TaskErr(t)

\* variant of on_resumed that resumes a task from whatever state it is in
TaskTracing_on_resumed_any(eid, tid, t, timestamp) ==
    LET tr == TaskTracing_transition_to(eid, tid, t, TaskRunning, timestamp)
    IN  TaskOk([tr.t EXCEPT !.current_monitors =
                                t.current_monitors \o Restarted(t.preempted_monitors, timestamp),
                            !.preempted_monitors = <<>>],
               tr.out)

\* drain(..) front to back, push_back of each name
TaskTracing_on_resumed(eid, tid, t, timestamp) ==
    IF t.state.k = "Preempted"
    THEN LET tr == TaskTracing_transition_to(eid, tid, t, TaskRunning, timestamp)
         IN  TaskOk([tr.t EXCEPT !.current_monitors =
                                     t.current_monitors \o Restarted(t.preempted_monitors, timestamp),
                                 !.preempted_monitors = <<>>],
                    tr.out)
    ELSE TaskErr(t)

TaskTracing_on_monitor_start(t, name, timestamp) ==
    [t EXCEPT !.current_monitors = Append(@, [name |-> name, ts |-> timestamp])]

\* variant of on_monitor_end that sends the end timestamp as the duration
TaskTracing_on_monitor_end_dur(eid, tid, t, timestamp) ==
    IF t.current_monitors # <<>>
    THEN LET n == Len(t.current_monitors)
             top == t.current_monitors[n]
         IN  [t |-> [t EXCEPT !.current_monitors = SubSeq(@, 1, n - 1)],
              out |-> <<Complete(top.name, eid, tid, top.ts, timestamp)>>]
    ELSE [t |-> t, out |-> <<>>]

\* variant of on_monitor_end that pops the front (pop_front instead of pop_back)
TaskTracing_on_monitor_end_front(eid, tid, t, timestamp) ==
    IF t.current_monitors # <<>>
    THEN LET top == Head(t.current_monitors)
         IN  [t |-> [t EXCEPT !.current_monitors = Tail(@)],
              out |-> <<Complete(top.name, eid, tid, top.ts, timestamp - top.ts)>>]
    ELSE [t |-> t, out |-> <<>>]

TaskTracing_on_monitor_end(eid, tid, t, timestamp) ==
    IF t.current_monitors # <<>>
    THEN LET n == Len(t.current_monitors)
             top == t.current_monitors[n]
         IN  [t |-> [t EXCEPT !.current_monitors = SubSeq(@, 1, n - 1)],
              out |-> <<Complete(top.name, eid, tid, top.ts, timestamp - top.ts)>>]
    ELSE [t |-> t, out |-> <<>>]

\* variant of on_drop that forgets the open monitors
TaskTracing_on_drop_forgetting(eid, tid, t, timestamp) ==
    [t |-> [t EXCEPT !.current_monitors = <<>>], out |-> <<End(eid, tid, timestamp)>>]

TaskTracing_on_drop(eid, tid, t, timestamp) ==
    [t |-> [t EXCEPT !.current_monitors = <<>>],
     out |-> <<End(eid, tid, timestamp)>> \o CompleteAll(t.current_monitors, eid, tid, timestamp)]

(***************************************************************************)
(* ExecutorTracing (executor.rs)                                           *)
(***************************************************************************)
ExecutorIdle == [k |-> "Idle"]
ExecutorScheduling == [k |-> "Scheduling"]
ExecutorPolling(task_id) == [k |-> "Polling", task_id |-> task_id]
ExecutorPreempted(by, prev_state) ==
    [k |-> "Preempted", by_executor_id |-> by, prev_state |-> prev_state]
ExecutorStreamDesynchronized == [k |-> "StreamDesynchronized"]

ExecutorState_to_string(s) ==
    CASE s.k = "Preempted" -> "Preempted (by Executor " \o Digit[s.by_executor_id] \o ")"
      [] s.k = "Polling" -> "Polling Task " \o Decimal(s.task_id)
      [] s.k = "StreamDesynchronized" -> "Stream Desynchronized"
      [] OTHER -> s.k

ExecOk(e, out) == [e |-> e, out |-> out, err |-> FALSE]
ExecErr(e, out) == [e |-> e, out |-> out, err |-> TRUE]

ExecutorTracing_new_polling(executor_id, state_start, task_id) ==
    LET nt == TaskTracing_new_exec_begin(executor_id, task_id, state_start)
    IN  [e |-> [current_state |-> ExecutorPolling(task_id),
                tasks |-> (task_id :> nt.t)],
         out |-> <<End(executor_id, ExecutorLaneTid, state_start)>> \o nt.out]

is_running(e) == e.current_state.k \in {"Polling", "Scheduling"}

is_preempted_by(e, executor_id) ==
    e.current_state.k = "Preempted" /\ e.current_state.by_executor_id = executor_id

TasksIn(e, kind) == {t \in DOMAIN e.tasks : e.tasks[t].state.k = kind}

ExecutorTracing_transition_to(eid, e, new_state, timestamp) ==
    IF e.current_state # new_state
    THEN [e |-> [e EXCEPT !.current_state = new_state],
          out |-> <<End(eid, ExecutorLaneTid, timestamp),
                    Begin(ExecutorState_to_string(new_state), eid, ExecutorLaneTid, timestamp)>>]
    ELSE [e |-> e, out |-> <<>>]

\* the records of a broadcast over a map, keys in ascending order
RECURSIVE Broadcast(_, _)
Broadcast(keys, outOf) ==
    IF keys = {} THEN <<>>
    ELSE LET k == CHOOSE x \in keys : \A y \in keys : x <= y
         IN  outOf[k] \o Broadcast(keys \ {k}, outOf)

ExecutorTracing_on_desynchronize(eid, e, timestamp) ==
    LET tr == ExecutorTracing_transition_to(eid, e, ExecutorStreamDesynchronized, timestamp)
        td == [t \in DOMAIN e.tasks |-> TaskTracing_on_desynchronize(eid, t, e.tasks[t], timestamp)]
    IN  [e |-> [tr.e EXCEPT !.tasks = [t \in DOMAIN e.tasks |-> td[t].t]],
         out |-> tr.out \o Broadcast(DOMAIN e.tasks, [t \in DOMAIN e.tasks |-> td[t].out])]

ExecutorTracing_on_task_new_spawned(eid, e, task_id, timestamp) ==
    IF task_id \notin DOMAIN e.tasks
    THEN LET nt == TaskTracing_new_spawned(eid, task_id, timestamp)
         IN  ExecOk([e EXCEPT !.tasks = (task_id :> nt.t) @@ @], nt.out)
    ELSE ExecOk(e, <<>>)

ExecutorTracing_on_task_ready(eid, e, task_id, timestamp) ==
    IF task_id \in DOMAIN e.tasks
    THEN LET r == TaskTracing_on_ready(eid, task_id, e.tasks[task_id], timestamp)
         IN  [e |-> [e EXCEPT !.tasks[task_id] = r.t], out |-> r.out, err |-> r.err]
    ELSE LET nt == TaskTracing_new_ready(eid, task_id, timestamp)
         IN  ExecOk([e EXCEPT !.tasks = (task_id :> nt.t) @@ @], nt.out)

\* variant of on_task_exec_begin without the check for a task already Running
ExecutorTracing_on_task_exec_begin_unchecked(eid, e, task_id, timestamp) ==
    LET r == IF task_id \in DOMAIN e.tasks
             THEN TaskTracing_on_exec_begin(eid, task_id, e.tasks[task_id], timestamp)
             ELSE LET nt == TaskTracing_new_exec_begin(eid, task_id, timestamp)
                  IN  TaskOk(nt.t, nt.out)
    IN  IF r.err THEN ExecErr(e, <<>>)
        ELSE LET e1 == [e EXCEPT !.tasks = (task_id :> r.t) @@ @]
                 tr == ExecutorTracing_transition_to(eid, e1, ExecutorPolling(task_id), timestamp)
             IN  ExecOk(tr.e, r.out \o tr.out)

ExecutorTracing_on_task_exec_begin(eid, e, task_id, timestamp) ==
    IF TasksIn(e, "Running") # {}
    THEN ExecErr(e, <<>>)
    ELSE LET r == IF task_id \in DOMAIN e.tasks
                  THEN TaskTracing_on_exec_begin(eid, task_id, e.tasks[task_id], timestamp)
                  ELSE LET nt == TaskTracing_new_exec_begin(eid, task_id, timestamp)
                       IN  TaskOk(nt.t, nt.out)
         IN  IF r.err THEN ExecErr(e, <<>>)
             ELSE LET e1 == [e EXCEPT !.tasks = (task_id :> r.t) @@ @]
                      tr == ExecutorTracing_transition_to(eid, e1, ExecutorPolling(task_id), timestamp)
                  IN  ExecOk(tr.e, r.out \o tr.out)

ExecutorTracing_on_task_exec_end(eid, e, timestamp) ==
    IF e.current_state.k = "Polling" /\ e.current_state.task_id \in DOMAIN e.tasks
    THEN LET task_id == e.current_state.task_id
             r == TaskTracing_on_exec_end(eid, task_id, e.tasks[task_id], timestamp)
         IN  IF r.err THEN ExecErr(e, <<>>)
             ELSE LET e1 == [e EXCEPT !.tasks[task_id] = r.t]
                      tr == ExecutorTracing_transition_to(eid, e1, ExecutorScheduling, timestamp)
                  IN  ExecOk(tr.e, r.out \o tr.out)
    ELSE ExecErr(e, <<>>)

\* running_task: the result of `find` over the tasks in Running
ExecutorTracing_on_preempted(eid, e, timestamp, by_executor_id, running_task) ==
    IF e.current_state.k \notin {"Scheduling", "Polling"}
    THEN ExecErr(e, <<>>)
    ELSE LET prev_state == e.current_state
             r == IF running_task = {} THEN TaskOk(<<>>, <<>>)
                  ELSE TaskTracing_on_preempted(eid, The(running_task),
                           e.tasks[The(running_task)], timestamp, by_executor_id)
         IN  IF r.err THEN ExecErr(e, <<>>)
             ELSE LET e1 == IF running_task = {} THEN e
                            ELSE [e EXCEPT !.tasks[The(running_task)] = r.t]
                      tr == ExecutorTracing_transition_to(eid, e1,
                                ExecutorPreempted(by_executor_id, prev_state), timestamp)
                  IN  ExecOk(tr.e, r.out \o tr.out)

\* preempted_task: the result of `find` over the tasks in Preempted
ExecutorTracing_on_resume(eid, e, timestamp, preempted_task) ==
    IF e.current_state.k = "Preempted"
    THEN LET r == IF preempted_task = {} THEN TaskOk(<<>>, <<>>)
                  ELSE TaskTracing_on_resumed(eid, The(preempted_task),
                           e.tasks[The(preempted_task)], timestamp)
         IN  IF r.err THEN ExecErr(e, <<>>)
             ELSE LET e1 == IF preempted_task = {} THEN e
                            ELSE [e EXCEPT !.tasks[The(preempted_task)] = r.t]
                      tr == ExecutorTracing_transition_to(eid, e1,
                                e.current_state.prev_state, timestamp)
                  IN  ExecOk(tr.e, r.out \o tr.out)
    ELSE ExecErr(e, <<>>)

\* the task that is ended is the one of the Polling state, not the named one
ExecutorTracing_on_task_end(eid, e, timestamp, task_id) ==
    IF task_id \notin DOMAIN e.tasks
    THEN ExecOk(e, <<>>)
    ELSE IF e.current_state.k = "Polling" /\ e.current_state.task_id \in DOMAIN e.tasks
    THEN LET polled == e.current_state.task_id
             r == TaskTracing_on_end(eid, polled, e.tasks[polled], timestamp)
         IN  [e |-> [e EXCEPT !.tasks[polled] = r.t], out |-> r.out, err |-> r.err]
    ELSE ExecErr(e, <<>>)

ExecutorTracing_on_poll_start(eid, e, timestamp) ==
    LET tr == ExecutorTracing_transition_to(eid, e, ExecutorScheduling, timestamp)
    IN  ExecOk(tr.e, tr.out)

ExecutorTracing_on_idle(eid, e, timestamp) ==
    LET tr == ExecutorTracing_transition_to(eid, e, ExecutorIdle, timestamp)
    IN  ExecOk(tr.e, tr.out)

ExecutorTracing_on_monitor_start(e, name, timestamp) ==
    IF e.current_state.k = "Polling" /\ e.current_state.task_id \in DOMAIN e.tasks
    THEN [e EXCEPT !.tasks[e.current_state.task_id] =
                       TaskTracing_on_monitor_start(@, name, timestamp)]
    ELSE e

ExecutorTracing_on_monitor_end(eid, e, timestamp) ==
    IF e.current_state.k = "Polling" /\ e.current_state.task_id \in DOMAIN e.tasks
    THEN LET task_id == e.current_state.task_id
             r == TaskTracing_on_monitor_end(eid, task_id, e.tasks[task_id], timestamp)
         IN  [e |-> [e EXCEPT !.tasks[task_id] = r.t], out |-> r.out]
    ELSE [e |-> e, out |-> <<>>]

ExecutorTracing_on_drop(eid, e, timestamp) ==
    LET td == [t \in DOMAIN e.tasks |-> TaskTracing_on_drop(eid, t, e.tasks[t], timestamp)]
    IN  [e |-> [e EXCEPT !.tasks = [t \in DOMAIN e.tasks |-> td[t].t]],
         out |-> Broadcast(DOMAIN e.tasks, [t \in DOMAIN e.tasks |-> td[t].out])
                 \o <<End(eid, ExecutorLaneTid, timestamp)>>]

(***************************************************************************)
(* CoreTracing (core.rs)                                                   *)
(***************************************************************************)
core_id_to_tid(core_id) == core_id + 1

begin_state(core_id, name, timestamp) ==
    Begin(name, CoreOverviewPid, core_id_to_tid(core_id), timestamp)
end_state(core_id, name, timestamp) ==
    EndNamed(name, CoreOverviewPid, core_id_to_tid(core_id), timestamp)

ExecutorName(executor_id) == "Executor " \o Digit[executor_id]

CoreTracing_new ==
    [executors |-> <<>>, monitor_stack |-> <<>>, preempted_monitors |-> <<>>]

CoreOk(c, out) == [c |-> c, out |-> out, err |-> FALSE, panic |-> FALSE]
\* the core after forwarding an event to one of its executors
CoreOf(c, executor_id, r) ==
    [c |-> [c EXCEPT !.executors[executor_id] = r.e], out |-> r.out, err |-> r.err,
     panic |-> FALSE]

RunningExecutors(c) == {e \in DOMAIN c.executors : is_running(c.executors[e])}
PreemptedBy(c, executor_id) ==
    {e \in DOMAIN c.executors : is_preempted_by(c.executors[e], executor_id)}
\* the tasks of an Option<executor> that are in the given state
TasksOf(c, executor, kind) ==
    IF executor = {} THEN {} ELSE TasksIn(c.executors[The(executor)], kind)

\* running_executor: the result of `find` over the executors that are running
CoreTracing_monitor_start(c, name, timestamp, running_executor) ==
    IF running_executor # {}
    THEN [c EXCEPT !.executors[The(running_executor)] =
                       ExecutorTracing_on_monitor_start(@, name, timestamp)]
    ELSE [c EXCEPT !.monitor_stack = <<[name |-> name, ts |-> timestamp]>> \o @]

\* `as u64 - 30` underflows for a span below 30 us: with overflow checks (debug
\* profile) the subtraction panics, without them (release profile) it wraps modulo
\* 2^64. A wrapped value v is written v - 2^64, i.e. as the negative number it is
\* the two's complement of.
CoreTracing_monitor_end(core_id, c, timestamp, running_executor, overflow_checks) ==
    IF running_executor # {}
    THEN LET eid == The(running_executor)
             r == ExecutorTracing_on_monitor_end(eid, c.executors[eid], timestamp)
         IN  CoreOk([c EXCEPT !.executors[eid] = r.e], r.out)
    ELSE IF c.monitor_stack # <<>>
    THEN LET top == Head(c.monitor_stack)
             span == timestamp - top.ts
             popped == [c EXCEPT !.monitor_stack = Tail(@)]
         IN  IF span < MonitorEndOffset /\ overflow_checks
             THEN [c |-> popped, out |-> <<>>, err |-> FALSE, panic |-> TRUE]
             ELSE CoreOk(popped, <<Complete(top.name, CoreOverviewPid, core_id_to_tid(core_id),
                                            top.ts, span - MonitorEndOffset)>>)
    ELSE CoreOk(c, <<>>)

CoreTracing_on_task_new_spawned(c, executor_id, task_id, timestamp) ==
    IF executor_id \in DOMAIN c.executors
    THEN CoreOf(c, executor_id,
             ExecutorTracing_on_task_new_spawned(executor_id, c.executors[executor_id],
                                                 task_id, timestamp))
    ELSE CoreOk(c, <<>>)

CoreTracing_on_desynchronize(core_id, c, timestamp) ==
    LET ed == [e \in DOMAIN c.executors |->
                  ExecutorTracing_on_desynchronize(e, c.executors[e], timestamp)]
    IN  [c |-> [c EXCEPT !.executors = [e \in DOMAIN c.executors |-> ed[e].e],
                         !.monitor_stack = <<>>],
         out |-> Broadcast(DOMAIN c.executors, [e \in DOMAIN c.executors |-> ed[e].out])
                 \o <<end_state(core_id, "None", timestamp),
                      begin_state(core_id, "Desynchronization", timestamp)>>
                 \o CompleteAll(c.monitor_stack, CoreOverviewPid, core_id_to_tid(core_id),
                                timestamp)]

\* variant of on_task_ready that creates the executor it does not know, as
\* on_task_exec_begin does
CoreTracing_on_task_ready_creating(c, executor_id, task_id, timestamp) ==
    IF executor_id \in DOMAIN c.executors
    THEN CoreOf(c, executor_id,
             ExecutorTracing_on_task_ready(executor_id, c.executors[executor_id],
                                           task_id, timestamp))
    ELSE LET ne == ExecutorTracing_new_polling(executor_id, timestamp, task_id)
         IN  CoreOk([c EXCEPT !.executors = (executor_id :> ne.e) @@ @], ne.out)

CoreTracing_on_task_ready(c, executor_id, task_id, timestamp) ==
    IF executor_id \in DOMAIN c.executors
    THEN CoreOf(c, executor_id,
             ExecutorTracing_on_task_ready(executor_id, c.executors[executor_id],
                                           task_id, timestamp))
    ELSE CoreOk(c, <<>>)

CoreTracing_on_task_exec_begin(c, executor_id, task_id, timestamp) ==
    IF executor_id \in DOMAIN c.executors
    THEN CoreOf(c, executor_id,
             ExecutorTracing_on_task_exec_begin(executor_id, c.executors[executor_id],
                                                task_id, timestamp))
    ELSE LET ne == ExecutorTracing_new_polling(executor_id, timestamp, task_id)
         IN  CoreOk([c EXCEPT !.executors = (executor_id :> ne.e) @@ @], ne.out)

CoreTracing_on_task_exec_end(c, executor_id, timestamp) ==
    IF executor_id \in DOMAIN c.executors
    THEN CoreOf(c, executor_id,
             ExecutorTracing_on_task_exec_end(executor_id, c.executors[executor_id], timestamp))
    ELSE CoreOk(c, <<>>)

CoreTracing_on_task_end(c, executor_id, task_id, timestamp) ==
    IF executor_id \in DOMAIN c.executors
    THEN CoreOf(c, executor_id,
             ExecutorTracing_on_task_end(executor_id, c.executors[executor_id],
                                         timestamp, task_id))
    ELSE CoreOk(c, <<>>)

\* running_executor: the result of `find` over the other executors that are running;
\* running_task: the result of the `find` of on_preempted over its Running tasks
CoreTracing_on_executor_poll_start(core_id, c, executor_id, timestamp, running_executor, running_task) ==
    IF executor_id \notin DOMAIN c.executors
    THEN CoreOk(c, <<>>)
    ELSE LET p  == IF running_executor = {} THEN CoreOk(c, <<>>)
                   ELSE LET r == The(running_executor)
                            pr == ExecutorTracing_on_preempted(r, c.executors[r], timestamp,
                                                               executor_id, running_task)
                        IN  IF pr.err THEN CoreOf(c, r, pr)
                            ELSE CoreOk([c EXCEPT !.executors[r] = pr.e,
                                                  !.monitor_stack = <<>>,
                                                  !.preempted_monitors =
                                                      Reverse(Names(c.monitor_stack)) \o @],
                                        pr.out
                                        \o CompleteAll(c.monitor_stack, CoreOverviewPid,
                                                       core_id_to_tid(core_id), timestamp)
                                        \o <<end_state(core_id, ExecutorName(r), timestamp)>>)
         IN  IF p.err THEN p
             ELSE LET f == ExecutorTracing_on_poll_start(executor_id,
                                                         p.c.executors[executor_id], timestamp)
                  IN  [c |-> [p.c EXCEPT !.executors[executor_id] = f.e],
                       out |-> p.out
                               \o <<begin_state(core_id, ExecutorName(executor_id), timestamp)>>
                               \o f.out,
                       err |-> f.err, panic |-> FALSE]

\* preempted_executor: the result of `find` over the executors preempted by
\* executor_id; preempted_task: the result of the `find` of on_resume over its
\* Preempted tasks
CoreTracing_on_executor_idle(core_id, c, executor_id, timestamp, preempted_executor, preempted_task) ==
    IF executor_id \notin DOMAIN c.executors
    THEN CoreOk(c, <<>>)
    ELSE LET ended == <<end_state(core_id, ExecutorName(executor_id), timestamp)>>
             p == IF preempted_executor = {} THEN CoreOk(c, ended)
                  ELSE LET r == The(preempted_executor)
                           rr == ExecutorTracing_on_resume(r, c.executors[r], timestamp,
                                                           preempted_task)
                       IN  IF rr.err
                           THEN [c |-> c, out |-> ended, err |-> TRUE, panic |-> FALSE]
                           ELSE CoreOk([c EXCEPT !.executors[r] = rr.e,
                                                 !.monitor_stack =
                                                     Reverse(Restarted(c.preempted_monitors,
                                                                       timestamp)) \o @,
                                                 !.preempted_monitors = <<>>],
                                       ended \o rr.out
                                       \o <<begin_state(core_id, ExecutorName(r), timestamp)>>)
         IN  IF p.err THEN p
             ELSE LET f == ExecutorTracing_on_idle(executor_id, p.c.executors[executor_id],
                                                   timestamp)
                  IN  [c |-> [p.c EXCEPT !.executors[executor_id] = f.e],
                       out |-> p.out \o f.out, err |-> f.err, panic |-> FALSE]

CoreTracing_on_drop(core_id, c, timestamp) ==
    LET ed == [e \in DOMAIN c.executors |-> ExecutorTracing_on_drop(e, c.executors[e], timestamp)]
    IN  [c |-> [c EXCEPT !.executors = [e \in DOMAIN c.executors |-> ed[e].e],
                         !.monitor_stack = <<>>],
         out |-> Broadcast(DOMAIN c.executors, [e \in DOMAIN c.executors |-> ed[e].out])
                 \o CompleteAll(c.monitor_stack, CoreOverviewPid, core_id_to_tid(core_id),
                                timestamp)
                 \o <<end_state(core_id, "None", timestamp)>>]

(***************************************************************************)
(* TracingInstance (tracing_instance.rs)                                   *)
(***************************************************************************)
VARIABLES
    latest_timestamp,    \* TracingInstance.latest_timestamp (microseconds)
    core_0,              \* TracingInstance.core_0
    core_1,              \* TracingInstance.core_1
    monitor_code_names,  \* TracingInstance.monitor_code_names
    panicked,            \* the thread running feed has panicked
    fed,                 \* number of items fed so far
    last,                \* the item fed last and whether it desynchronized the engine
    out,                 \* the records the last feed sent to the trace sink
    open_slices,         \* per lane <<pid, tid>>, the names of the Begins not yet ended
    dangling_ends,       \* the lanes on which the last feed sent an End with no open Begin
    items_to_feed,       \* the number of items the host feeds in this run
    script,              \* the items of a replayed scenario with their timestamps
    internal_buffer,     \* TraceDataDecoder.internal_buffer (bytes fed, not yet drained)
    monitors,            \* TraceDataDecoder.monitors: value monitor id -> type id
    last_timestamp,      \* TraceDataDecoder.last_timestamp
    decoder_panicked,    \* the thread running decode has panicked
    wire,                \* the records whose bytes have been fed completely, in feed order
    pending,             \* the record fed in part and the bytes of it still to feed
    intact,              \* every byte fed so far was written by write_tracing_event
    feeds,               \* number of feed calls so far
    items,               \* the items returned by the last decode
    yielded,             \* the items returned by all decodes, in order
    attempts,            \* the read_tracing_event calls of the last decode
    last_call,           \* the call made last on the decoder: "new", "feed" or "decode"
    codec_pc,            \* round trip of one value: "start", "written", "read" or "panicked"
    codec_in,            \* the TimeDelta or EventPayload to write
    codec_writer,        \* the BufferWriter it is written to
    codec_out,           \* what is read back from the written bytes
    slots,               \* ExecutorRegistry.slots of EXECUTOR_REGISTRY
    hooks,               \* per thread, where its _embassy_trace_poll_start stands
    returned,            \* the <<long id, short id>> pairs lookup_or_register has returned
    next_id,             \* VALUE_MONITOR_REGISTRY.next_id
    local_ids,           \* per instrumentation site, its static LOCAL_MONITOR_VALUE_ID
    callers,             \* per thread, where its get_static_id_by_registry! stands
    obtained,            \* the <<site, id>> pairs get_static_id_by_registry! has returned
    newly,               \* per site, how many callers got registered_newly = true
    clock_us,            \* the microsecond counter get_tracing_time_us reads
    LAST_TIMESTAMP,      \* static mut LAST_TIMESTAMP of time_delta.rs
    DROPPED_EVENTS_COUNTER, \* static DROPPED_EVENTS_COUNTER of tracing_rtt.rs (u32)
    rtt_free,            \* bytes free in the RTT up channel TRACING_CHANNEL
    rtt_ledger,          \* event records rejected, and events reported lost by accepted DataLoss
    rtt_last,            \* what the last write_tracing_data call found and did
    rtt_calls,           \* number of write_tracing_event calls so far
    emitters,            \* per context, where its write_tracing_event stands
    sent,                \* the records handed to write_tracing_data, in order
    unit,                \* one ExecutorTracing and one TaskTracing called on their own
    OUT_PIPE,            \* static OUT_PIPE of tracing_esp.rs: the records it holds, in order
    exit_flag,           \* the exit flag main shares with the Perfetto writer thread
    trace_events,        \* the channel from the engine to the Perfetto writer thread
    perfetto_writer      \* the Perfetto writer thread: its position and the file it writes

tracing_vars == <<latest_timestamp, core_0, core_1, monitor_code_names, panicked, fed, last,
                  out, open_slices, dangling_ends, items_to_feed, script>>

\* the variables of the parts of the system that the engine does not touch
decoder_vars == <<internal_buffer, monitors, last_timestamp, decoder_panicked, wire, pending,
                  intact, feeds, items, yielded, attempts, last_call>>
codec_vars == <<codec_pc, codec_in, codec_writer, codec_out>>
registry_vars == <<slots, hooks, returned>>
site_vars == <<next_id, local_ids, callers, obtained, newly>>
rtt_vars == <<clock_us, LAST_TIMESTAMP, DROPPED_EVENTS_COUNTER, rtt_free, rtt_ledger, rtt_last,
              rtt_calls>>
emit_vars == <<emitters, sent>>
target_vars == <<site_vars, rtt_vars, emit_vars>>
handler_vars == <<unit>>
esp_vars == <<OUT_PIPE>>
writer_vars == <<exit_flag, trace_events, perfetto_writer>>
extra_vars == <<handler_vars, esp_vars, writer_vars>>
rest_vars == <<decoder_vars, codec_vars, registry_vars, target_vars, extra_vars>>
\* the decoder after TraceDataDecoder::new
TraceDataDecoder_new ==
    /\ internal_buffer = <<>>
    /\ monitors = <<>>
    /\ last_timestamp = [hi |-> 0, lo |-> 0]
    /\ decoder_panicked = FALSE
    /\ wire = <<>>
    /\ pending = <<>>
    /\ intact = TRUE
    /\ feeds = 0
    /\ items = <<>>
    /\ yielded = <<>>
    /\ attempts = <<>>
    /\ last_call = "new"
\* the codec round trip when none is made
CodecUnused ==
    /\ codec_pc = "unused"
    /\ codec_in = <<>>
    /\ codec_writer = <<>>
    /\ codec_out = <<>>
\* those parts as they are when nothing has used them
\* threads that may run an embassy hook at the same time
NumThreads == 2
Threads == 1..NumThreads
\* ExecutorRegistry.slots: [AtomicU32; 8]
NumSlots == 8
\* ExecutorRegistry::new(): every slot holds 0
ExecutorRegistry_new == [i \in 1..NumSlots |-> 0]
\* a thread that runs no hook and has run none
HookIdle == [pc |-> "idle", executor_id |-> 0, i |-> 0, result |-> <<>>, via |-> "",
             written |-> <<>>]
\* static EXECUTOR_REGISTRY before any hook has run
RegistryUnused ==
    /\ slots = ExecutorRegistry_new
    /\ hooks = [t \in Threads |-> HookIdle]
    /\ returned = {}
\* instrumentation sites (expansions of monitor_value! / monitor_scoped!)
NumSites == 2
Sites == 1..NumSites
\* NumericRegistry::new(): ids start at 1, 0 stands for "unregistered"
NumericRegistry_new == 1
\* a thread that is in no instrumentation site and has been in none; seen holds the
\* sites whose stored id the thread has observed
CallerIdle == [pc |-> "idle", site |-> 0, id |-> 0, result |-> <<>>, seen |-> {}]
\* the statics of the instrumentation sites before any site has run
SitesUnused ==
    /\ next_id = NumericRegistry_new
    /\ local_ids = [site \in Sites |-> 0]
    /\ callers = [t \in Threads |-> CallerIdle]
    /\ obtained = {}
    /\ newly = [site \in Sites |-> 0]
\* bytes the RTT up channel of the model holds
RttChannelBytes == 16
\* a count of events without a width, as two base-65536 digits of which hi is unbounded
Count(hi, lo) == [hi |-> hi, lo |-> lo]
\* the target's clock, LAST_TIMESTAMP and the RTT transport before any event is written
RttUnused ==
    /\ clock_us = 0
    /\ LAST_TIMESTAMP = 0
    /\ DROPPED_EVENTS_COUNTER = [hi |-> 0, lo |-> 0]
    /\ rtt_free = RttChannelBytes
    /\ rtt_ledger = [rejected |-> Count(0, 0), reported |-> Count(0, 0)]
    /\ rtt_last = [unreported |-> FALSE, dataloss |-> "none", data |-> "none"]
    /\ rtt_calls = 0
\* the target-side statics before the target has run
\* contexts that can be inside write_tracing_event at once: a thread and an interrupt
\* handler, or the two cores
NumContexts == 2
Contexts == 1..NumContexts
EmitterIdle == [pc |-> "idle", now |-> 0, delta |-> [hi |-> 0, lo |-> 0], order |-> 0]
EmitUnused ==
    /\ emitters = [c \in Contexts |-> EmitterIdle]
    /\ sent = <<>>
TargetUnused == SitesUnused /\ RttUnused /\ EmitUnused
\* no handler has been called on an object of its own
NoCall == [on |-> "none", handler |-> "none", task_id |-> 0, err |-> FALSE]
HandlersUnused ==
    unit = [executor |-> <<>>, task |-> <<>>, call |-> NoCall, out |-> <<>>, now |-> 0,
            calls |-> 0]
\* Pipe::new(): the pipe of the ESP transport is empty
PipeUnused == OUT_PIPE = <<>>
\* main before it spawns the Perfetto writer thread: the flag is clear, the channel is
\* empty and the engine holds its sender
WriterUnused ==
    /\ exit_flag = FALSE
    /\ trace_events = [queued |-> 0, sender_alive |-> TRUE]
    /\ perfetto_writer = [pc |-> "unspawned", first_event |-> TRUE, file |-> <<>>]
ExtraUnused == HandlersUnused /\ PipeUnused /\ WriterUnused
RestUnused ==
    TraceDataDecoder_new /\ CodecUnused /\ RegistryUnused /\ TargetUnused /\ ExtraUnused

vars == <<tracing_vars, rest_vars>>

(***************************************************************************)
(* The trace as its reader pairs it: a Begin opens a slice on its lane, an  *)
(* End closes the innermost open slice of its lane.                         *)
(***************************************************************************)
Lane(r) == <<r.pid, r.tid>>
OpenOn(open, lane) == IF lane \in DOMAIN open THEN open[lane] ELSE <<>>

RECURSIVE Sink(_, _)
Sink(s, recs) ==
    IF recs = <<>> THEN s
    ELSE LET r == Head(recs)
             cur == OpenOn(s.open, Lane(r))
         IN  Sink(CASE r.ph = "B" ->
                         [s EXCEPT !.open = (Lane(r) :> Append(cur, r.name)) @@ @]
                    [] r.ph = "E" /\ cur # <<>> ->
                         [s EXCEPT !.open = (Lane(r) :> SubSeq(cur, 1, Len(cur) - 1)) @@ @]
                    [] r.ph = "E" /\ cur = <<>> ->
                         [s EXCEPT !.dangling = @ \cup {Lane(r)}]
                    [] OTHER -> s,
                  Tail(recs))

\* feed is called with panic_by_resync = false
PanicByResync == FALSE
\* the tid of a Metadata record without one (tid: None)
NoTid == -1

RECURSIVE Xor(_, _)
Xor(a, b) == IF a = 0 /\ b = 0 THEN 0
             ELSE (((a % 2) + (b % 2)) % 2) + 2 * Xor(a \div 2, b \div 2)

\* rustmeter-beacon-core: drop the alignment bits, XOR-fold to 16 bits
compressed_task_id(task_id) ==
    LET shifted == task_id \div 4
    IN  Xor(shifted, shifted \div 65536) % 65536

Metadata(name, pid, tid) == TracingEvent("M", name, pid, tid, 0, 0)

\* the result of feeding one event to both cores, core 0 first; an Err of core 0
\* returns before core 1 is called
Both(r0, r1, c1) ==
    IF r0.err
    THEN [c0 |-> r0.c, c1 |-> c1, out |-> r0.out, err |-> TRUE, panic |-> FALSE,
          names |-> monitor_code_names]
    ELSE [c0 |-> r0.c, c1 |-> r1.c, out |-> r0.out \o r1.out, err |-> r1.err, panic |-> FALSE,
          names |-> monitor_code_names]
\* the result of feeding one event to the core it is tagged with
One(core_id, r, c0, c1) ==
    [c0 |-> IF core_id = 0 THEN r.c ELSE c0,
     c1 |-> IF core_id = 1 THEN r.c ELSE c1,
     out |-> r.out, err |-> r.err, panic |-> r.panic, names |-> monitor_code_names]

\* variant of on_desynchronize that desynchronizes and recreates core 0 only
TracingInstance_on_desynchronize_core_0(c0, c1, timestamp, panic_by_resync) ==
    LET d0 == CoreTracing_on_desynchronize(0, c0, timestamp)
    IN  IF panic_by_resync
        THEN [c0 |-> d0.c, c1 |-> c1, out |-> d0.out, panic |-> TRUE]
        ELSE [c0 |-> CoreTracing_new, c1 |-> c1, out |-> d0.out, panic |-> FALSE]

TracingInstance_on_desynchronize(c0, c1, timestamp, panic_by_resync) ==
    LET d0 == CoreTracing_on_desynchronize(0, c0, timestamp)
        d1 == CoreTracing_on_desynchronize(1, c1, timestamp)
    IN  IF panic_by_resync
        THEN [c0 |-> d0.c, c1 |-> d1.c, out |-> d0.out \o d1.out, panic |-> TRUE]
        ELSE [c0 |-> CoreTracing_new, c1 |-> CoreTracing_new, out |-> d0.out \o d1.out,
              panic |-> FALSE]

Item(kind, core, executor_id, task_id, monitor_id) ==
    [kind |-> kind, core |-> core, executor_id |-> executor_id, task_id |-> task_id,
     monitor_id |-> monitor_id]
\* the value of an item field that the event kind does not carry
Unused == -1

\* feed: h is the result of handle_event_payloads for the item
TracingInstance_feed(item, timestamp, h) ==
    /\ ~panicked
    /\ last.item.kind # "Drop"
    /\ fed < items_to_feed
    /\ fed' = fed + 1
    /\ UNCHANGED <<items_to_feed, script, rest_vars>>
    /\ latest_timestamp' = timestamp
    /\ monitor_code_names' = h.names
    /\ IF h.panic
       THEN /\ core_0' = h.c0
            /\ core_1' = h.c1
            /\ out' = h.out
            /\ panicked' = TRUE
            /\ last' = [item |-> item, desync |-> FALSE]
       ELSE IF h.err
       THEN LET d == TracingInstance_on_desynchronize(h.c0, h.c1, timestamp, PanicByResync)
            IN  /\ core_0' = d.c0
                /\ core_1' = d.c1
                /\ out' = h.out \o d.out
                /\ panicked' = d.panic
                /\ last' = [item |-> item, desync |-> TRUE]
       ELSE /\ core_0' = h.c0
            /\ core_1' = h.c1
            /\ out' = h.out
            /\ panicked' = FALSE
            /\ last' = [item |-> item, desync |-> FALSE]
    /\ open_slices' = Sink([open |-> open_slices, dangling |-> {}], out').open
    /\ dangling_ends' = Sink([open |-> open_slices, dangling |-> {}], out').dangling

Ok0 == [c0 |-> core_0, c1 |-> core_1, out |-> <<>>, err |-> FALSE, panic |-> FALSE,
        names |-> monitor_code_names]
Timestamps == {latest_timestamp + d : d \in Deltas}
Core(core_id) == IF core_id = 0 THEN core_0 ELSE core_1

\* the engine after TracingInstance::new
TracingInstance_new ==
    /\ latest_timestamp = 0
    /\ core_0 = CoreTracing_new
    /\ core_1 = CoreTracing_new
    /\ monitor_code_names = <<>>
    /\ panicked = FALSE
    /\ fed = 0
    /\ last = [item |-> Item("None", Unused, Unused, Unused, Unused), desync |-> FALSE]
    /\ out = <<>>
    /\ open_slices = <<>>
    /\ dangling_ends = {}

Init ==
    /\ TracingInstance_new
    /\ items_to_feed = MaxEvents
    /\ script = <<>>
    /\ RestUnused

FeedDataLoss ==
    \E ts \in Timestamps :
        TracingInstance_feed(Item("DataLossEvent", Unused, Unused, Unused, Unused), ts,
                             [Ok0 EXCEPT !.err = TRUE])

FeedTaskReady ==
    \E ts \in Timestamps, e \in ExecIds, t \in TaskIds :
        TracingInstance_feed(Item("EmbassyTaskReady", Unused, e, t, Unused), ts,
            Both(CoreTracing_on_task_ready(core_0, e, t, ts),
                 CoreTracing_on_task_ready(core_1, e, t, ts), core_1))

FeedExecutorPollStart ==
    \E ts \in Timestamps, e \in ExecIds :
    \E x0 \in Find(RunningExecutors(core_0) \ {e}), x1 \in Find(RunningExecutors(core_1) \ {e}) :
    \E t0 \in Find(TasksOf(core_0, x0, "Running")), t1 \in Find(TasksOf(core_1, x1, "Running")) :
        TracingInstance_feed(Item("EmbassyExecutorPollStart", Unused, e, Unused, Unused), ts,
            Both(CoreTracing_on_executor_poll_start(0, core_0, e, ts, x0, t0),
                 CoreTracing_on_executor_poll_start(1, core_1, e, ts, x1, t1), core_1))

FeedExecutorIdle ==
    \E ts \in Timestamps, e \in ExecIds :
    \E x0 \in Find(PreemptedBy(core_0, e)), x1 \in Find(PreemptedBy(core_1, e)) :
    \E t0 \in Find(TasksOf(core_0, x0, "Preempted")), t1 \in Find(TasksOf(core_1, x1, "Preempted")) :
        TracingInstance_feed(Item("EmbassyExecutorIdle", Unused, e, Unused, Unused), ts,
            Both(CoreTracing_on_executor_idle(0, core_0, e, ts, x0, t0),
                 CoreTracing_on_executor_idle(1, core_1, e, ts, x1, t1), core_1))

FeedTaskExecBegin ==
    \E ts \in Timestamps, c \in CoreIds, e \in ExecIds, t \in TaskIds :
        TracingInstance_feed(Item("EmbassyTaskExecBegin", c, e, t, Unused), ts,
            One(c, CoreTracing_on_task_exec_begin(Core(c), e, t, ts), core_0, core_1))

FeedTaskExecEnd ==
    \E ts \in Timestamps, c \in CoreIds, e \in ExecIds :
        TracingInstance_feed(Item("EmbassyTaskExecEnd", c, e, Unused, Unused), ts,
            One(c, CoreTracing_on_task_exec_end(Core(c), e, ts), core_0, core_1))

\* handle_typedef, EmbassyTaskCreated: two Metadata records, then both cores
FeedTaskCreated ==
    \E ts \in Timestamps, e \in ExecIds, long \in LongTaskIds :
        LET t == compressed_task_id(long)
            b == Both(CoreTracing_on_task_new_spawned(core_0, e, t, ts),
                      CoreTracing_on_task_new_spawned(core_1, e, t, ts), core_1)
        IN  TracingInstance_feed(Item("EmbassyTaskCreated", Unused, e, t, Unused), ts,
                [b EXCEPT !.out = <<Metadata("process_name", e, ExecutorLaneTid),
                                    Metadata("thread_name", e, t)>> \o @])

\* handle_typedef, EmbassyTaskEnded: two Metadata records named by the symbol
\* resolver, then both cores
FeedTaskEnded ==
    \E ts \in Timestamps, e \in ExecIds, long \in LongTaskIds :
        LET t == compressed_task_id(long)
            b == Both(CoreTracing_on_task_end(core_0, e, t, ts),
                      CoreTracing_on_task_end(core_1, e, t, ts), core_1)
        IN  TracingInstance_feed(Item("EmbassyTaskEnded", Unused, e, t, Unused), ts,
                [b EXCEPT !.out = <<Metadata("executor symbol", e, NoTid),
                                    Metadata("task symbol", e, t)>> \o @])

\* handle_typedef, ScopeMonitor: the name is registered under the monitor id
\* (FunctionMonitor does the same with the name the symbol resolver returns)
FeedScopeMonitor ==
    \E ts \in Timestamps, m \in MonitorIds :
        TracingInstance_feed(Item("ScopeMonitor", Unused, Unused, Unused, m), ts,
            [Ok0 EXCEPT !.names = (m :> MonitorName(m)) @@ @])

\* the longest deque of open monitors on a core
MonitorDepth(c) ==
    LET lens == {Len(c.monitor_stack)} \cup
                UNION {{Len(c.executors[e].tasks[t].current_monitors) :
                           t \in DOMAIN c.executors[e].tasks} : e \in DOMAIN c.executors}
    IN  CHOOSE n \in lens : \A k \in lens : k <= n

FeedMonitorStart ==
    \E ts \in Timestamps, c \in CoreIds, m \in MonitorIds :
    \E x \in Find(RunningExecutors(Core(c))) :
        /\ MonitorDepth(Core(c)) < MaxMonitorDepth
        /\ TracingInstance_feed(Item("MonitorStart", c, Unused, Unused, m), ts,
               IF m \in DOMAIN monitor_code_names
               THEN One(c, CoreOk(CoreTracing_monitor_start(Core(c), monitor_code_names[m],
                                                            ts, x), <<>>),
                        core_0, core_1)
               ELSE Ok0)

FeedMonitorEnd ==
    \E ts \in Timestamps, c \in CoreIds, overflow_checks \in BOOLEAN :
    \E x \in Find(RunningExecutors(Core(c))) :
        TracingInstance_feed(Item("MonitorEnd", c, Unused, Unused, Unused), ts,
            One(c, CoreTracing_monitor_end(c, Core(c), ts, x, overflow_checks), core_0, core_1))

Next ==
    \/ FeedDataLoss
    \/ FeedTaskReady
    \/ FeedExecutorPollStart
    \/ FeedExecutorIdle
    \/ FeedTaskExecBegin
    \/ FeedTaskExecEnd
    \/ FeedTaskCreated
    \/ FeedTaskEnded
    \/ FeedScopeMonitor
    \/ FeedMonitorStart
    \/ FeedMonitorEnd

Spec == Init /\ [][Next]_vars

(***************************************************************************)
(* Claims                                                                  *)
(***************************************************************************)
\* a step that feeds one item (every non-stuttering step does)
Fed == fed' = fed + 1
Executors(core_id) == DOMAIN Core(core_id).executors
Executor(core_id, e) == Core(core_id).executors[e]
Tasks(core_id, e) == DOMAIN Executor(core_id, e).tasks
Task(core_id, e, t) == Executor(core_id, e).tasks[t]
InOut(r) == \E i \in 1..Len(out) : out[i] = r

\* C1: on each core at most one executor is in Polling or Scheduling (every other
\* executor on the core is then in Idle, Preempted or StreamDesynchronized).
C1_OneRunningExecutorPerCore ==
    \A c \in CoreIds : Cardinality(RunningExecutors(Core(c))) <= 1

\* C2: every executor has at most one task in state Running.
C2_OneRunningTaskPerExecutor ==
    \A c \in CoreIds : \A e \in Executors(c) :
        Cardinality(TasksIn(Executor(c, e), "Running")) <= 1

\* C2 witness: an executor that tracks two tasks was resumed from a preemption and
\* its preempted task is Running again.
C2_Witness ==
    /\ last.item.kind = "EmbassyExecutorIdle"
    /\ ~last.desync
    /\ \E c \in CoreIds : \E e \in Executors(c) :
          /\ Cardinality(Tasks(c, e)) = 2
          /\ Cardinality(TasksIn(Executor(c, e), "Running")) = 1
          /\ \E i \in 1..Len(out) : out[i] = Begin("Running", e, The(TasksIn(Executor(c, e), "Running")),
                                                   latest_timestamp)

\* C3: when ExecutorPollStart(E') is processed for a core on which a different
\* executor E is Scheduling or Polling, E is moved to Preempted{by = E', prev = the
\* state it was in}; this for every executor E'.
C3_PollStartPreemptsRunning ==
    [][ (Fed /\ last'.item.kind = "EmbassyExecutorPollStart") =>
            \A c \in CoreIds : \A e \in RunningExecutors(Core(c)) \ {last'.item.executor_id} :
                /\ e \in Executors(c)'
                /\ Executor(c, e)'.current_state =
                       ExecutorPreempted(last'.item.executor_id, Executor(c, e).current_state)
      ]_vars

\* C4: an executor E preempted by E' while in state S stays Preempted until
\* ExecutorIdle(E') is processed, and then returns to exactly S; if S is
\* Polling(T), task T is Running again (steps that desynchronize excepted).
C4_ResumeRestoresPreemptedState ==
    [][ (Fed /\ ~last'.desync) =>
            \A c \in CoreIds : \A e \in Executors(c) :
                LET st == Executor(c, e).current_state
                IN  st.k = "Preempted" =>
                      /\ e \in Executors(c)'
                      /\ IF /\ last'.item.kind = "EmbassyExecutorIdle"
                            /\ last'.item.executor_id = st.by_executor_id
                         THEN /\ Executor(c, e)'.current_state = st.prev_state
                              /\ st.prev_state.k = "Polling" =>
                                    /\ st.prev_state.task_id \in Tasks(c, e)'
                                    /\ Task(c, e, st.prev_state.task_id)'.state = TaskRunning
                         ELSE Executor(c, e)'.current_state = st
      ]_vars

OnCoreLane(r, core_id) == Lane(r) = <<CoreOverviewPid, core_id_to_tid(core_id)>>

C6_DesyncFlushesMonitors ==
    [][ (Fed /\ last'.desync) =>
            \A c \in CoreIds :
                /\ Core(c)' = CoreTracing_new
                /\ \A i \in 1..Len(Core(c).monitor_stack) :
                      LET m == Core(c).monitor_stack[i]
                      IN  \E j \in 1..Len(out') :
                              out'[j] = Complete(m.name, CoreOverviewPid, core_id_to_tid(c),
                                                 m.ts, latest_timestamp' - m.ts)
                /\ \A e \in Executors(c) : \A t \in Tasks(c, e) :
                      \A i \in 1..Len(Task(c, e, t).current_monitors) :
                          LET m == Task(c, e, t).current_monitors[i]
                          IN  \E j \in 1..Len(out') :
                                  out'[j] = Complete(m.name, e, t, m.ts,
                                                     latest_timestamp' - m.ts)
      ]_vars

\* C6 witness: a desynchronization has flushed a monitor of a task and a monitor of
\* the core-level stack, and the cores are empty.
C6_Witness ==
    /\ last.desync
    /\ core_0 = CoreTracing_new
    /\ core_1 = CoreTracing_new
    /\ \E i, j \in 1..Len(out) :
          /\ out[i].ph = "X" /\ out[i].pid \in ExecIds
          /\ out[i].ts + out[i].dur = latest_timestamp
          /\ out[j].ph = "X" /\ out[j].pid = CoreOverviewPid
          /\ out[j].ts + out[j].dur = latest_timestamp

\* C7: feed returns for every item without panicking and without an integer
\* underflow (a wrapped duration).
C7_FeedNeverPanics ==
    /\ ~panicked
    /\ \A i \in 1..Len(out) : out[i].dur >= 0

Top(s) == s[Len(s)]

\* C8: on every executor lane and every task lane the state the executor or task
\* is in has been announced by a Begin that is still open, and no End was sent to
\* such a lane while it had no open Begin.
C8_EveryStateHasBegin ==
    /\ \A lane \in dangling_ends : lane[1] = CoreOverviewPid
    /\ \A c \in CoreIds : \A e \in Executors(c) :
          /\ OpenOn(open_slices, <<e, ExecutorLaneTid>>) # <<>>
          /\ Top(OpenOn(open_slices, <<e, ExecutorLaneTid>>))
                 = ExecutorState_to_string(Executor(c, e).current_state)
          /\ \A t \in Tasks(c, e) :
                /\ OpenOn(open_slices, <<e, t>>) # <<>>
                /\ Top(OpenOn(open_slices, <<e, t>>)) = TaskState_to_string(Task(c, e, t).state)

\* C9: a MonitorStart pushes its monitor on top of the open monitors of the task it
\* is attributed to, and a MonitorEnd that closes a monitor of a task closes the
\* one started last and sends exactly one record: a Complete with ts = that start
\* timestamp and dur = end timestamp - start timestamp.
C9_TaskMonitorsAreLIFO ==
    [][ (Fed /\ ~last'.desync) =>
            \A c \in CoreIds : \A e \in Executors(c) : \A t \in Tasks(c, e) :
                LET before == Task(c, e, t).current_monitors
                    after == Task(c, e, t)'.current_monitors
                    n == Len(before)
                IN  /\ last'.item.kind = "MonitorStart" =>
                          \/ after = before
                          \/ after = Append(before, [name |-> MonitorName(last'.item.monitor_id),
                                                     ts |-> latest_timestamp'])
                    /\ last'.item.kind = "MonitorEnd" =>
                          \/ after = before
                          \/ /\ n > 0
                             /\ after = SubSeq(before, 1, n - 1)
                             /\ out' = <<Complete(before[n].name, e, t, before[n].ts,
                                                  latest_timestamp' - before[n].ts)>>
      ]_vars

\* C9 witness: a MonitorEnd has closed the inner of two nested monitors of a task;
\* the outer one, started earlier, is still open.
C9_Witness ==
    /\ last.item.kind = "MonitorEnd"
    /\ Len(out) = 1
    /\ \E c \in CoreIds : \E e \in Executors(c) : \E t \in Tasks(c, e) :
          /\ Len(Task(c, e, t).current_monitors) = 1
          /\ Lane(out[1]) = <<e, t>>
          /\ out[1].ph = "X"
          /\ out[1].ts > Task(c, e, t).current_monitors[1].ts
          /\ out[1].dur = latest_timestamp - out[1].ts
          /\ out[1].dur > 0

IsItem(item, kind, e, t) ==
    item.kind = kind /\ item.executor_id = e /\ item.task_id = t

\* C10: TaskReady(T) while T is Running leaves T Running and sets its re-awoken
\* flag; an accepted TaskExecEnd of the executor moves its Running task to Ready
\* if the flag is set and to Idle if not, and clears the flag; the flag is set by
\* nothing but a TaskReady, and is clear when a task starts Running.
C10_ReawokenWhileRunning ==
    [][ (Fed /\ ~last'.desync) =>
            \A c \in CoreIds : \A e \in Executors(c) : \A t \in Tasks(c, e) :
                LET before == Task(c, e, t)
                    after == Task(c, e, t)'
                    item == last'.item
                IN  /\ (before.state = TaskRunning /\ IsItem(item, "EmbassyTaskReady", e, t)) =>
                          (after.state = TaskRunning /\ after.reawoken_while_running)
                    /\ (/\ before.state = TaskRunning
                        /\ item.kind = "EmbassyTaskExecEnd"
                        /\ item.core = c
                        /\ item.executor_id = e) =>
                          /\ after.state = IF before.reawoken_while_running
                                           THEN TaskReady ELSE TaskIdle
                          /\ ~after.reawoken_while_running
                    /\ (~before.reawoken_while_running /\ after.reawoken_while_running) =>
                          IsItem(item, "EmbassyTaskReady", e, t)
                    /\ (before.state.k \notin {"Running", "Preempted"}
                        /\ after.state = TaskRunning) =>
                          ~after.reawoken_while_running
      ]_vars

\* C10 witness: an accepted TaskExecEnd has moved a re-awoken task from Running to
\* Ready.
C10_Witness ==
    /\ last.item.kind = "EmbassyTaskExecEnd"
    /\ ~last.desync
    /\ \E c \in CoreIds : \E e \in Executors(c) : \E t \in Tasks(c, e) :
          /\ last.item.core = c
          /\ last.item.executor_id = e
          /\ Task(c, e, t).state = TaskReady
          /\ ~Task(c, e, t).reawoken_while_running
          /\ InOut(Begin("Ready", e, t, latest_timestamp))

OnExecutorOrTaskLane(r) == r.ph \in {"B", "E", "X"} /\ r.pid # CoreOverviewPid

\* C11 (as claimed): on each executor lane and each task lane the ts values of the
\* Begin, End and Complete records are non-decreasing in emission order, within
\* the records of one feed and from the records of one feed to those of the next.
C11_TsNonDecreasingPerLane ==
    [][ Fed =>
            /\ \A i, j \in 1..Len(out') :
                  (i < j /\ OnExecutorOrTaskLane(out'[i]) /\ Lane(out'[i]) = Lane(out'[j])
                         /\ OnExecutorOrTaskLane(out'[j])) => out'[i].ts <= out'[j].ts
            /\ \A i \in 1..Len(out) : \A j \in 1..Len(out') :
                  (OnExecutorOrTaskLane(out[i]) /\ Lane(out[i]) = Lane(out'[j])
                         /\ OnExecutorOrTaskLane(out'[j])) => out[i].ts <= out'[j].ts
      ]_vars

\* C11 (amended): every Begin and End record sent to an executor lane or a task
\* lane carries the timestamp of the item being fed, and every Complete record
\* sent there ends at that timestamp (ts + dur) and starts no later; the
\* timestamps of the fed items never decrease.
C11_RecordsEndAtFedTimestamp ==
    [][ Fed =>
            /\ latest_timestamp' >= latest_timestamp
            /\ \A i \in 1..Len(out') :
                  OnExecutorOrTaskLane(out'[i]) =>
                      IF out'[i].ph = "X"
                      THEN /\ out'[i].ts + out'[i].dur = latest_timestamp'
                           /\ out'[i].dur >= 0
                      ELSE out'[i].ts = latest_timestamp'
      ]_vars

\* C11 witness: one feed has sent to a task lane a Begin at the fed timestamp and,
\* after it, the Complete of a monitor that started earlier.
C11_Witness ==
    \E i, j \in 1..Len(out) :
        /\ i < j
        /\ Lane(out[i]) = Lane(out[j])
        /\ out[i].ph = "B" /\ out[i].pid \in ExecIds /\ out[i].tid # ExecutorLaneTid
        /\ out[i].ts = latest_timestamp
        /\ out[j].ph = "X"
        /\ out[j].ts < latest_timestamp
        /\ out[j].ts + out[j].dur = latest_timestamp

(***************************************************************************)
(* Teardown: impl Drop for TracingInstance                                 *)
(***************************************************************************)
TracingInstance_drop ==
    LET d0 == CoreTracing_on_drop(0, core_0, latest_timestamp)
        d1 == CoreTracing_on_drop(1, core_1, latest_timestamp)
    IN  /\ last.item.kind # "Drop"
        /\ core_0' = d0.c
        /\ core_1' = d1.c
        /\ out' = d0.out \o d1.out
        /\ last' = [item |-> Item("Drop", Unused, Unused, Unused, Unused), desync |-> FALSE]
        /\ open_slices' = Sink([open |-> open_slices, dangling |-> {}], out').open
        /\ dangling_ends' = Sink([open |-> open_slices, dangling |-> {}], out').dangling
        /\ UNCHANGED <<latest_timestamp, monitor_code_names, panicked, fed, items_to_feed, script,
                       rest_vars>>

InitDrop ==
    /\ TracingInstance_new
    /\ items_to_feed = MaxEventsBeforeDrop
    /\ script = <<>>
    /\ RestUnused

NextDrop ==
    \/ Next
    \/ TracingInstance_drop

SpecDrop == InitDrop /\ [][NextDrop]_vars

Dropped == last'.item.kind = "Drop" /\ last.item.kind # "Drop"

\* C12: when the engine is dropped, every monitor open on a core or on a task is
\* sent as a Complete from its start to the last fed timestamp, every executor lane
\* and every task lane receives an End at that timestamp, and afterwards the
\* monitor stack of each core and the open monitors of each task are empty.
C12_DropFlushesOpenMonitors ==
    [][ Dropped =>
            \A c \in CoreIds :
                /\ Core(c)'.monitor_stack = <<>>
                /\ \A i \in 1..Len(Core(c).monitor_stack) :
                      LET m == Core(c).monitor_stack[i]
                      IN  \E j \in 1..Len(out') :
                              out'[j] = Complete(m.name, CoreOverviewPid, core_id_to_tid(c),
                                                 m.ts, latest_timestamp - m.ts)
                /\ \A e \in Executors(c) :
                      /\ \E j \in 1..Len(out') :
                              out'[j] = End(e, ExecutorLaneTid, latest_timestamp)
                      /\ \A t \in Tasks(c, e) :
                            /\ Task(c, e, t)'.current_monitors = <<>>
                            /\ \E j \in 1..Len(out') : out'[j] = End(e, t, latest_timestamp)
                            /\ \A i \in 1..Len(Task(c, e, t).current_monitors) :
                                  LET m == Task(c, e, t).current_monitors[i]
                                  IN  \E j \in 1..Len(out') :
                                          out'[j] = Complete(m.name, e, t, m.ts,
                                                             latest_timestamp - m.ts)
      ]_vars

\* C12 witness: the engine was dropped with a monitor open on a core and one open
\* on a task; both were sent as Complete records that end at the last fed timestamp,
\* the task's having started before it, and the task's lane received its End.
C12_Witness ==
    /\ last.item.kind = "Drop"
    /\ \E i, j, k \in 1..Len(out) :
          /\ out[i].ph = "X" /\ out[i].pid = CoreOverviewPid
          /\ out[i].ts + out[i].dur = latest_timestamp
          /\ out[j].ph = "X" /\ out[j].pid \in ExecIds
          /\ out[j].dur > 0 /\ out[j].ts + out[j].dur = latest_timestamp
          /\ out[k] = End(out[j].pid, out[j].tid, latest_timestamp)

(***************************************************************************)
(* Wire codec of rustmeter-beacon-core                                      *)
(*                                                                         *)
(* Representation of the integers of the code                               *)
(*  - u8, u16 and u3 are integers; i8 and i16 are signed integers.          *)
(*  - a 32-bit integer (u32 or i32) is the record [hi, lo] of the two       *)
(*    16-bit halves of its bit pattern; a 64-bit integer is the record      *)
(*    [hi, lo] of two 32-bit integers.                                      *)
(*  - a String is the sequence of its UTF-8 bytes.                          *)
(*  - an Option returned by a read through a BufferReader is the record     *)
(*    [some, v, r, panic, eof]: some = FALSE is None, r is the reader after  *)
(*    the call, panic = TRUE is a panic raised inside the call, and eof     *)
(*    records that the None came from a read past the end of the buffer     *)
(*    (the caller of the code cannot tell; properties are stated with it).  *)
(***************************************************************************)
\* capacity of BufferWriter.buffer
BufferWriterCapacity == 32

U32(hi, lo) == [hi |-> hi, lo |-> lo]
U64(hi, lo) == [hi |-> hi, lo |-> lo]

u16_to_le_bytes(v) == <<v % 256, v \div 256>>
\* variant of u16_from_le_bytes that takes the first byte as the high one
u16_from_le_bytes_swapped(b) == 256 * b[1] + b[2]
u16_from_le_bytes(b) == b[1] + 256 * b[2]
u16_to_be_bytes(v) == <<v \div 256, v % 256>>
u16_from_be_bytes(b) == 256 * b[1] + b[2]
u32_to_le_bytes(v) == u16_to_le_bytes(v.lo) \o u16_to_le_bytes(v.hi)
u32_from_le_bytes(b) == U32(u16_from_le_bytes(<<b[3], b[4]>>), u16_from_le_bytes(<<b[1], b[2]>>))
u32_to_be_bytes(v) == u16_to_be_bytes(v.hi) \o u16_to_be_bytes(v.lo)
u32_from_be_bytes(b) == U32(u16_from_be_bytes(<<b[1], b[2]>>), u16_from_be_bytes(<<b[3], b[4]>>))
u64_to_le_bytes(v) == u32_to_le_bytes(v.lo) \o u32_to_le_bytes(v.hi)
u64_from_le_bytes(b) == U64(u32_from_le_bytes(SubSeq(b, 5, 8)), u32_from_le_bytes(SubSeq(b, 1, 4)))
\* `v as u8` of an i8 and `b as i8` of a u8
i8_as_u8(v) == (v + 256) % 256
u8_as_i8(b) == IF b >= 128 THEN b - 256 ELSE b
i16_to_le_bytes(v) == u16_to_le_bytes((v + 65536) % 65536)
i16_from_le_bytes(b) == LET u == u16_from_le_bytes(b) IN IF u >= 32768 THEN u - 65536 ELSE u

\* core::str::from_utf8(bytes).is_ok(), for sequences of one- and two-byte characters:
\* every byte is ASCII, or a lead byte followed by a continuation byte, or a
\* continuation byte that follows a lead byte
from_utf8_is_ok(bytes) ==
    \A i \in 1..Len(bytes) :
        \/ bytes[i] < 128
        \/ bytes[i] \in 194..223 /\ i < Len(bytes) /\ bytes[i + 1] \in 128..191
        \/ bytes[i] \in 128..191 /\ i > 1 /\ bytes[i - 1] \in 194..223

(***************************************************************************)
(* BufferWriter and BufferReader (buffer.rs)                               *)
(***************************************************************************)
\* buffer holds the bytes written so far (its length is the field position);
\* panic: an index past the 32 bytes of the array
BufferWriter_new == [buffer |-> <<>>, panic |-> FALSE]

BufferWriter_write_byte(w, byte) ==
    IF w.panic THEN w
    ELSE IF Len(w.buffer) >= BufferWriterCapacity THEN [w EXCEPT !.panic = TRUE]
    ELSE [w EXCEPT !.buffer = Append(@, byte)]

BufferWriter_write_bytes(w, data) ==
    IF w.panic THEN w
    ELSE IF Len(w.buffer) + Len(data) > BufferWriterCapacity THEN [w EXCEPT !.panic = TRUE]
    ELSE [w EXCEPT !.buffer = @ \o data]

BufferWriter_as_slice(w) == w.buffer

BufferReader_new(buffer) == [buffer |-> buffer, position |-> 0]

Some(v, r) == [some |-> TRUE, v |-> v, r |-> r, panic |-> FALSE, eof |-> FALSE]
None(r) == [some |-> FALSE, v |-> <<>>, r |-> r, panic |-> FALSE, eof |-> FALSE]
Panic(r) == [some |-> FALSE, v |-> <<>>, r |-> r, panic |-> TRUE, eof |-> FALSE]
\* the None of a read that found the buffer exhausted
Exhausted(r) == [some |-> FALSE, v |-> <<>>, r |-> r, panic |-> FALSE, eof |-> TRUE]

BufferReader_read_byte(r) ==
    IF r.position >= Len(r.buffer) THEN Exhausted(r)
    ELSE Some(r.buffer[r.position + 1], [r EXCEPT !.position = @ + 1])

BufferReader_read_bytes(r, length) ==
    IF r.position + length > Len(r.buffer) THEN Exhausted(r)
    ELSE Some(SubSeq(r.buffer, r.position + 1, r.position + length),
              [r EXCEPT !.position = @ + length])

BufferReader_get_position(r) == r.position

\* `let x = res?; Rest(x)`: a None (or a panic) is returned as it is, a Some is
\* handed on; x.v is the value and x.r the reader after the call
Try(res, Rest(_)) == IF ~res.some THEN res ELSE Rest(res)

\* `for byte in data.iter_mut() { *byte = buffer.read_byte()?; }` over an array of
\* n bytes: the bytes read before the buffer ends stay read
RECURSIVE read_byte_array(_, _)
read_byte_array(r, n) ==
    IF n = 0 THEN Some(<<>>, r)
    ELSE Try(BufferReader_read_byte(r), LAMBDA b :
         Try(read_byte_array(b.r, n - 1), LAMBDA rest :
         Some(<<b.v>> \o rest.v, rest.r)))

\* `loop { let byte = buffer.read_byte()?; if byte == 0 { break; } name_bytes.push(byte); }`:
\* the bytes before the first NUL at or after the position; without one, every
\* remaining byte is read and the next read_byte finds the buffer exhausted
read_until_nul(r) ==
    LET nuls == {i \in (r.position + 1)..Len(r.buffer) : r.buffer[i] = 0}
    IN  IF nuls = {}
        THEN Exhausted([r EXCEPT !.position = Len(r.buffer)])
        ELSE LET nul == CHOOSE i \in nuls : \A j \in nuls : i <= j
             IN  Some(SubSeq(r.buffer, r.position + 1, nul - 1), [r EXCEPT !.position = nul])

(***************************************************************************)
(* TimeDelta (time_delta.rs); delta is a u32                                *)
(***************************************************************************)
TimeDelta(delta) == [delta |-> delta]

\* variant of is_extended that tests delta > 2^15
TimeDelta_is_extended_above(t) == t.delta.hi > 0 \/ t.delta.lo > 32768

\* self.delta >= 2u32.pow(15)
TimeDelta_is_extended(t) == t.delta.hi > 0 \/ t.delta.lo >= 32768

TimeDelta_write_bytes(t, writer) ==
    IF TimeDelta_is_extended(t)
    THEN LET capped_delta == IF t.delta.hi >= 32768 THEN U32(32767, 65535) ELSE t.delta
             extended_value == U32(capped_delta.hi + 32768, capped_delta.lo)
         IN  BufferWriter_write_bytes(writer, u32_to_be_bytes(extended_value))
    ELSE LET single_value == t.delta.lo % 32768
         IN  BufferWriter_write_bytes(writer, u16_to_be_bytes(single_value))

TimeDelta_read_bytes(reader) ==
    Try(BufferReader_read_byte(reader), LAMBDA first_byte :
    Try(BufferReader_read_byte(first_byte.r), LAMBDA second_byte :
    IF first_byte.v < 128
    THEN Some(TimeDelta(U32(0, u16_from_be_bytes(<<first_byte.v, second_byte.v>>))),
              second_byte.r)
    ELSE Try(BufferReader_read_bytes(second_byte.r, 2), LAMBDA next_two_bytes :
         Some(TimeDelta(U32(u32_from_be_bytes(<<first_byte.v, second_byte.v,
                                                next_two_bytes.v[1],
                                                next_two_bytes.v[2]>>).hi % 32768,
                            u32_from_be_bytes(<<first_byte.v, second_byte.v,
                                                next_two_bytes.v[1],
                                                next_two_bytes.v[2]>>).lo)),
              next_two_bytes.r))))

TimeDelta_get_delta_us(t) == t.delta

(***************************************************************************)
(* MonitorValuePayload (protocol/monitor_value_payload.rs)                  *)
(***************************************************************************)
\* a value with its variant tag first, <<variant, value>>
MonitorValuePayload(type, v) == <<type, v>>

MonitorValuePayload_type_id(value) ==
    CASE value[1] = "U8" -> 0
      [] value[1] = "U16" -> 1
      [] value[1] = "U32" -> 2
      [] value[1] = "U64" -> 3
      [] value[1] = "I8" -> 4
      [] value[1] = "I16" -> 5
      [] value[1] = "I32" -> 6
      [] value[1] = "I64" -> 7

MonitorValuePayload_write_bytes(value, buffer) ==
    CASE value[1] = "U8" -> BufferWriter_write_byte(buffer, value[2])
      [] value[1] = "U16" -> BufferWriter_write_bytes(buffer, u16_to_le_bytes(value[2]))
      [] value[1] = "U32" -> BufferWriter_write_bytes(buffer, u32_to_le_bytes(value[2]))
      [] value[1] = "U64" -> BufferWriter_write_bytes(buffer, u64_to_le_bytes(value[2]))
      [] value[1] = "I8" -> BufferWriter_write_byte(buffer, i8_as_u8(value[2]))
      [] value[1] = "I16" -> BufferWriter_write_bytes(buffer, i16_to_le_bytes(value[2]))
      [] value[1] = "I32" -> BufferWriter_write_bytes(buffer, u32_to_le_bytes(value[2]))
      [] value[1] = "I64" -> BufferWriter_write_bytes(buffer, u64_to_le_bytes(value[2]))

\* a fixed-size array read byte by byte and converted by conv
ReadArray(buffer, n, type, conv(_)) ==
    Try(read_byte_array(buffer, n), LAMBDA data :
    Some(MonitorValuePayload(type, conv(data.v)), data.r))

MonitorValuePayload_from_bytes(type_id, buffer) ==
    CASE type_id = 0 ->
            Try(BufferReader_read_byte(buffer), LAMBDA b :
            Some(MonitorValuePayload("U8", b.v), b.r))
      [] type_id = 1 -> ReadArray(buffer, 2, "U16", u16_from_le_bytes)
      [] type_id = 2 -> ReadArray(buffer, 4, "U32", u32_from_le_bytes)
      [] type_id = 3 -> ReadArray(buffer, 8, "U64", u64_from_le_bytes)
      [] type_id = 4 ->
            Try(BufferReader_read_byte(buffer), LAMBDA b :
            Some(MonitorValuePayload("I8", u8_as_i8(b.v)), b.r))
      [] type_id = 5 -> ReadArray(buffer, 2, "I16", i16_from_le_bytes)
      [] type_id = 6 -> ReadArray(buffer, 4, "I32", u32_from_le_bytes)
      [] type_id = 7 -> ReadArray(buffer, 8, "I64", u64_from_le_bytes)
      [] OTHER -> None(buffer)

(***************************************************************************)
(* TypeDefinitionPayload (protocol/typedef_payload.rs)                      *)
(***************************************************************************)
EmbassyTaskCreated(task_id, executor_id_long, executor_id_short) ==
    [kind |-> "EmbassyTaskCreated", task_id |-> task_id,
     executor_id_long |-> executor_id_long, executor_id_short |-> executor_id_short]
EmbassyTaskEnded(task_id, executor_id_long, executor_id_short) ==
    [kind |-> "EmbassyTaskEnded", task_id |-> task_id,
     executor_id_long |-> executor_id_long, executor_id_short |-> executor_id_short]
FunctionMonitor(monitor_id, fn_address) ==
    [kind |-> "FunctionMonitor", monitor_id |-> monitor_id, fn_address |-> fn_address]
ScopeMonitor(monitor_id, name) ==
    [kind |-> "ScopeMonitor", monitor_id |-> monitor_id, name |-> name]
ValueMonitor(value_id, type_id, name) ==
    [kind |-> "ValueMonitor", value_id |-> value_id, type_id |-> type_id, name |-> name]

TypeDefinitionPayload_type_id(def) ==
    CASE def.kind = "EmbassyTaskCreated" -> 0
      [] def.kind = "EmbassyTaskEnded" -> 1
      [] def.kind = "FunctionMonitor" -> 2
      [] def.kind = "ScopeMonitor" -> 3
      [] def.kind = "ValueMonitor" -> 4

TypeDefinitionPayload_write_bytes(def, writer) ==
    LET w0 == BufferWriter_write_byte(writer, TypeDefinitionPayload_type_id(def))
    IN  CASE def.kind \in {"EmbassyTaskCreated", "EmbassyTaskEnded"} ->
                BufferWriter_write_byte(
                    BufferWriter_write_bytes(
                        BufferWriter_write_bytes(w0, u32_to_le_bytes(def.task_id)),
                        u32_to_le_bytes(def.executor_id_long)),
                    def.executor_id_short)
          [] def.kind = "FunctionMonitor" ->
                BufferWriter_write_bytes(BufferWriter_write_byte(w0, def.monitor_id),
                                         u32_to_le_bytes(def.fn_address))
          [] def.kind = "ScopeMonitor" ->
                BufferWriter_write_byte(
                    BufferWriter_write_bytes(BufferWriter_write_byte(w0, def.monitor_id),
                                             def.name),
                    0)
          [] def.kind = "ValueMonitor" ->
                BufferWriter_write_byte(
                    BufferWriter_write_bytes(
                        BufferWriter_write_byte(BufferWriter_write_byte(w0, def.value_id),
                                                def.type_id),
                        def.name),
                    0)

\* the task sub-kinds: two u32 read byte by byte, then u3::new(read_byte()?), which
\* panics on a byte above 7
ReadTaskDefinition(buffer, Make(_, _, _)) ==
    Try(read_byte_array(buffer, 4), LAMBDA task_id_bytes :
    Try(read_byte_array(task_id_bytes.r, 4), LAMBDA executor_id_long_bytes :
    Try(BufferReader_read_byte(executor_id_long_bytes.r), LAMBDA b :
    IF b.v > 7 THEN Panic(b.r)
    ELSE Some(Make(u32_from_le_bytes(task_id_bytes.v),
                   u32_from_le_bytes(executor_id_long_bytes.v), b.v),
              b.r))))

\* a name read up to its NUL and checked by from_utf8(..).ok()?
ReadName(buffer, Make(_)) ==
    Try(read_until_nul(buffer), LAMBDA name_bytes :
    IF ~from_utf8_is_ok(name_bytes.v) THEN None(name_bytes.r)
    ELSE Some(Make(name_bytes.v), name_bytes.r))

TypeDefinitionPayload_from_bytes(typedef_id, buffer) ==
    CASE typedef_id = 0 -> ReadTaskDefinition(buffer, EmbassyTaskCreated)
      [] typedef_id = 1 -> ReadTaskDefinition(buffer, EmbassyTaskEnded)
      [] typedef_id = 2 ->
            Try(BufferReader_read_byte(buffer), LAMBDA monitor_id :
            Try(read_byte_array(monitor_id.r, 4), LAMBDA fn_address_bytes :
            Some(FunctionMonitor(monitor_id.v, u32_from_le_bytes(fn_address_bytes.v)),
                 fn_address_bytes.r)))
      [] typedef_id = 3 ->
            Try(BufferReader_read_byte(buffer), LAMBDA monitor_id :
            ReadName(monitor_id.r, LAMBDA name : ScopeMonitor(monitor_id.v, name)))
      [] typedef_id = 4 ->
            Try(BufferReader_read_byte(buffer), LAMBDA value_id :
            Try(BufferReader_read_byte(value_id.r), LAMBDA type_id :
            ReadName(type_id.r, LAMBDA name : ValueMonitor(value_id.v, type_id.v, name))))
      [] OTHER -> None(buffer)

(***************************************************************************)
(* EventPayload (protocol/event_payload.rs)                                 *)
(***************************************************************************)
EmbassyTaskReady(task_id) == [kind |-> "EmbassyTaskReady", task_id |-> task_id]
EmbassyTaskExecBeginCore0(task_id) == [kind |-> "EmbassyTaskExecBeginCore0", task_id |-> task_id]
EmbassyTaskExecBeginCore1(task_id) == [kind |-> "EmbassyTaskExecBeginCore1", task_id |-> task_id]
EmbassyTaskExecEndCore0(executor_id) == [kind |-> "EmbassyTaskExecEndCore0", executor_id |-> executor_id]
EmbassyTaskExecEndCore1(executor_id) == [kind |-> "EmbassyTaskExecEndCore1", executor_id |-> executor_id]
EmbassyExecutorPollStart(executor_id) == [kind |-> "EmbassyExecutorPollStart", executor_id |-> executor_id]
EmbassyExecutorIdle(executor_id) == [kind |-> "EmbassyExecutorIdle", executor_id |-> executor_id]
MonitorStartCore0(monitor_id) == [kind |-> "MonitorStartCore0", monitor_id |-> monitor_id]
MonitorStartCore1(monitor_id) == [kind |-> "MonitorStartCore1", monitor_id |-> monitor_id]
MonitorEndCore0 == [kind |-> "MonitorEndCore0"]
MonitorEndCore1 == [kind |-> "MonitorEndCore1"]
MonitorValue(value_id, value) == [kind |-> "MonitorValue", value_id |-> value_id, value |-> value]
TypeDefinition(def) == [kind |-> "TypeDefinition", def |-> def]

EventPayload_event_id(event) ==
    CASE event.kind = "EmbassyTaskReady" -> 0
      [] event.kind = "EmbassyTaskExecBeginCore0" -> 1
      [] event.kind = "EmbassyTaskExecBeginCore1" -> 2
      [] event.kind = "EmbassyTaskExecEndCore0" -> 3
      [] event.kind = "EmbassyTaskExecEndCore1" -> 4
      [] event.kind = "EmbassyExecutorPollStart" -> 5
      [] event.kind = "EmbassyExecutorIdle" -> 6
      [] event.kind = "MonitorStartCore0" -> 7
      [] event.kind = "MonitorStartCore1" -> 8
      [] event.kind = "MonitorEndCore0" -> 9
      [] event.kind = "MonitorEndCore1" -> 10
      [] event.kind = "MonitorValue" -> 11
      [] event.kind = "TypeDefinition" -> 12

\* Option<u3> as a set
EventPayload_get_executor_id(event) ==
    IF event.kind \in {"EmbassyTaskExecEndCore0", "EmbassyTaskExecEndCore1",
                       "EmbassyExecutorPollStart", "EmbassyExecutorIdle"}
    THEN {event.executor_id}
    ELSE {}

EventPayload_write_bytes(event, writer) ==
    LET id == EventPayload_get_executor_id(event)
        executor_short_id == IF id = {} THEN 0 ELSE CHOOSE e \in id : TRUE
        \* u8::from(event_id) << 3 | executor_short_id, in a u8
        event_type == ((EventPayload_event_id(event) * 8) % 256) + executor_short_id
        w0 == BufferWriter_write_byte(writer, event_type)
    IN  CASE event.kind \in {"EmbassyTaskReady", "EmbassyTaskExecBeginCore0",
                             "EmbassyTaskExecBeginCore1"} ->
                BufferWriter_write_bytes(w0, u16_to_le_bytes(event.task_id))
          [] event.kind \in {"MonitorStartCore0", "MonitorStartCore1"} ->
                BufferWriter_write_byte(w0, event.monitor_id)
          [] event.kind = "MonitorValue" ->
                MonitorValuePayload_write_bytes(event.value,
                                                BufferWriter_write_byte(w0, event.value_id))
          [] event.kind = "TypeDefinition" -> TypeDefinitionPayload_write_bytes(event.def, w0)
          [] OTHER -> w0

\* a u16 task id read byte by byte
ReadTaskId(buffer, Make(_)) ==
    Try(read_byte_array(buffer, 2), LAMBDA data :
    Some(Make(u16_from_le_bytes(data.v)), data.r))

\* a call of the caller's monitor_value_reader closure.  The closures of this repository
\* resolve a type id for the value id and call MonitorValuePayload::from_bytes with it, or
\* return None when they have no type for it; a closure is given as its map from value
\* ids to type ids
monitor_value_reader_call(monitor_value_reader, value_id, buffer) ==
    IF value_id \in DOMAIN monitor_value_reader
    THEN MonitorValuePayload_from_bytes(monitor_value_reader[value_id], buffer)
    ELSE None(buffer)

\* event_type >> 3 is the event id and event_type & 0x07 the short executor id
EventPayload_from_bytes(event_type, buffer, monitor_value_reader) ==
    CASE event_type \div 8 = 0 -> ReadTaskId(buffer, EmbassyTaskReady)
      [] event_type \div 8 = 1 -> ReadTaskId(buffer, EmbassyTaskExecBeginCore0)
      [] event_type \div 8 = 2 -> ReadTaskId(buffer, EmbassyTaskExecBeginCore1)
      [] event_type \div 8 = 3 -> Some(EmbassyTaskExecEndCore0(event_type % 8), buffer)
      [] event_type \div 8 = 4 -> Some(EmbassyTaskExecEndCore1(event_type % 8), buffer)
      [] event_type \div 8 = 5 -> Some(EmbassyExecutorPollStart(event_type % 8), buffer)
      [] event_type \div 8 = 6 -> Some(EmbassyExecutorIdle(event_type % 8), buffer)
      [] event_type \div 8 = 7 ->
            Try(BufferReader_read_byte(buffer), LAMBDA monitor_id :
            Some(MonitorStartCore0(monitor_id.v), monitor_id.r))
      [] event_type \div 8 = 8 ->
            Try(BufferReader_read_byte(buffer), LAMBDA monitor_id :
            Some(MonitorStartCore1(monitor_id.v), monitor_id.r))
      [] event_type \div 8 = 9 -> Some(MonitorEndCore0, buffer)
      [] event_type \div 8 = 10 -> Some(MonitorEndCore1, buffer)
      [] event_type \div 8 = 11 ->
            Try(BufferReader_read_byte(buffer), LAMBDA value_id :
            Try(monitor_value_reader_call(monitor_value_reader, value_id.v, value_id.r),
                LAMBDA value :
            Some(MonitorValue(value_id.v, value.v), value.r)))
      [] event_type \div 8 = 12 ->
            Try(BufferReader_read_byte(buffer), LAMBDA typedef_it :
            Try(TypeDefinitionPayload_from_bytes(typedef_it.v, typedef_it.r), LAMBDA def :
            Some(TypeDefinition(def.v), def.r)))
      [] OTHER -> None(buffer)

(***************************************************************************)
(* write_tracing_event and read_tracing_event (tracing.rs)                  *)
(***************************************************************************)
\* the bytes handed to write_tracing_data for one event, with the delta that
\* TimeDelta::from_now measured; panic: the event does not fit the BufferWriter
write_tracing_event(timestamp, event) ==
    EventPayload_write_bytes(event, TimeDelta_write_bytes(timestamp, BufferWriter_new))

\* reads one record through the caller's reader; v is <<timestamp, event>>
read_tracing_event(reader, monitor_value_reader) ==
    Try(TimeDelta_read_bytes(reader), LAMBDA timestamp :
    Try(BufferReader_read_byte(timestamp.r), LAMBDA event_type :
    Try(EventPayload_from_bytes(event_type.v, event_type.r, monitor_value_reader),
        LAMBDA event :
    Some(<<timestamp.v, event.v>>, event.r))))

(***************************************************************************)
(* TraceDataDecoder (rustmeter-cli/src/tracing/trace_data_decoder.rs)       *)
(***************************************************************************)
\* decode() parses only while at least this many bytes are buffered
DecodeMinBytes == 100

TracingItem(timestamp, payload) == [timestamp |-> timestamp, payload |-> payload]

\* a Duration in microseconds is the record [hi, lo] of its value divided by 2^30 and
\* the remainder (a Duration holds 64-bit seconds: no sum of deltas overflows it)
DurationBase == 1073741824
\* variant of from_micros that keeps only the low 16 bits of the delta
from_micros_low(delta) == [hi |-> 0, lo |-> delta.lo]

\* Duration::from_micros(timedelta.get_delta_us() as u64)
from_micros(delta) == [hi |-> delta.hi \div 16384, lo |-> (delta.hi % 16384) * 65536 + delta.lo]
\* a + b of two Durations
Duration_add(a, b) ==
    LET lo == a.lo + b.lo
    IN  [hi |-> a.hi + b.hi + lo \div DurationBase, lo |-> lo % DurationBase]
\* a <= b of two Durations
Duration_le(a, b) == a.hi < b.hi \/ (a.hi = b.hi /\ a.lo <= b.lo)

\* the closure monitor_type_fn of decode: the type id registered for a value monitor
monitor_type_fn(mons, monitor_id) == IF monitor_id \in DOMAIN mons THEN {mons[monitor_id]} ELSE {}

\* the reader of a value payload that read_tracing_event builds from monitor_type_fn:
\* it reads a value of the type monitor_type_fn returns, and a value of an unregistered
\* monitor cannot be read
read_monitor_value(mons) ==
    [value_id \in {id \in 0..255 : monitor_type_fn(mons, id) # {}} |->
        CHOOSE t \in monitor_type_fn(mons, value_id) : TRUE]

\* monitors.insert(value_id, type_id) for a ValueMonitor definition
RegisterMonitor(mons, payload) ==
    IF payload.kind = "TypeDefinition" /\ payload.def.kind = "ValueMonitor"
    THEN [k \in DOMAIN mons \cup {payload.def.value_id} |->
             IF k = payload.def.value_id THEN payload.def.type_id ELSE mons[k]]
    ELSE mons

\* one call of read_tracing_event inside decode: where the reader stood before and
\* after it and how it returned (kept for stating properties; the code keeps none of it)
Attempt(before, res) ==
    [start |-> BufferReader_get_position(before), end |-> BufferReader_get_position(res.r),
     len |-> Len(before.buffer), some |-> res.some, eof |-> res.eof]

\* the loop of decode over one BufferReader: d holds the reader, the monitors, the
\* last timestamp, the items pushed so far and the calls made so far
RECURSIVE DecodeLoop(_)

\* the arm Some((timedelta, payload)) of the match
Pushed(d, res, timestamp) ==
    [buffer |-> res.r,
     monitors |-> RegisterMonitor(d.monitors, res.v[2]),
     last_timestamp |-> timestamp,
     items |-> Append(d.items, TracingItem(timestamp, res.v[2])),
     panic |-> FALSE,
     attempts |-> Append(d.attempts, Attempt(d.buffer, res))]

\* the check at the end of the loop body
Continue(next) ==
    IF Len(next.buffer.buffer) - BufferReader_get_position(next.buffer) < DecodeMinBytes
    THEN next
    ELSE DecodeLoop(next)

\* the match on the result of read_tracing_event
Matched(d, res) ==
    IF res.panic
    THEN [d EXCEPT !.buffer = res.r, !.panic = TRUE,
                   !.attempts = Append(@, Attempt(d.buffer, res))]
    ELSE IF ~res.some
    THEN [d EXCEPT !.buffer = res.r, !.attempts = Append(@, Attempt(d.buffer, res))]
    ELSE Continue(Pushed(d, res, Duration_add(d.last_timestamp,
                                              from_micros(TimeDelta_get_delta_us(res.v[1])))))

DecodeLoop(d) ==
    Matched(d, read_tracing_event(d.buffer, read_monitor_value(d.monitors)))

\* the drain and the return after the loop (a panic unwinds before the drain)
Drained(buf, d) ==
    [internal_buffer |-> IF d.panic THEN buf
                         ELSE SubSeq(buf, BufferReader_get_position(d.buffer) + 1, Len(buf)),
     monitors |-> d.monitors,
     last_timestamp |-> d.last_timestamp,
     items |-> IF d.panic THEN <<>> ELSE d.items,
     panic |-> d.panic,
     attempts |-> d.attempts]

\* decode(): the decoder after the call, the items returned, whether it panicked and
\* the calls of read_tracing_event it made
TraceDataDecoder_decode(buf, mons, last_ts) ==
    IF Len(buf) < DecodeMinBytes
    THEN [internal_buffer |-> buf, monitors |-> mons, last_timestamp |-> last_ts,
          items |-> <<>>, panic |-> FALSE, attempts |-> <<>>]
    ELSE Drained(buf, DecodeLoop([buffer |-> BufferReader_new(buf), monitors |-> mons,
                                  last_timestamp |-> last_ts, items |-> <<>>,
                                  panic |-> FALSE, attempts |-> <<>>]))

(***************************************************************************)
(* The decoder fed by a host: the target writes records with               *)
(* write_tracing_event, the host feeds their bytes in one or several feed   *)
(* calls, possibly with bytes that no write_tracing_event produced, and     *)
(* calls decode at any time.                                               *)
(***************************************************************************)
\* the TimeDelta that from_now builds for a clock that advanced by delta_us
TimeDelta_from_us(delta_us) == TimeDelta(U32(delta_us \div 65536, delta_us % 65536))
\* a record written delta_us after the previous one
Written(delta_us, event) == [delta_us |-> delta_us, event |-> event]
RecordBytes(rec) ==
    BufferWriter_as_slice(write_tracing_event(TimeDelta_from_us(rec.delta_us), rec.event))
RECURSIVE RecordsBytes(_)
RecordsBytes(recs) == IF recs = <<>> THEN <<>> ELSE RecordBytes(Head(recs)) \o RecordsBytes(Tail(recs))

\* a name of the greatest length the monitor macros accept
Name20 == [i \in 1..20 |-> 97]
TaskReadyRecord == Written(10, EmbassyTaskReady(258))
PollStartRecord == Written(70000, EmbassyExecutorPollStart(5))
MonitorValueRecord == Written(10, MonitorValue(5, MonitorValuePayload("U16", 48879)))
ScopeMonitorRecord == Written(300, TypeDefinition(ScopeMonitor(1, Name20)))
ValueMonitorRecord == Written(10, TypeDefinition(ValueMonitor(5, 1, Name20)))
\* one block of records read from the transport at once (105 bytes)
Burst == <<ValueMonitorRecord, ScopeMonitorRecord, ScopeMonitorRecord, ScopeMonitorRecord>>
FedBatches == {<<TaskReadyRecord>>, <<PollStartRecord>>, <<MonitorValueRecord>>, Burst}

\* a record of event kind 13, which no EventPayload has
UnknownKindBytes == <<0, 10, 13 * 8>>
\* an EmbassyTaskCreated definition whose short executor id byte is 9
BadExecutorBytes == <<0, 10, 12 * 8, 0, 1, 0, 0, 0, 2, 0, 0, 0, 9>>
CorruptChunks == {UnknownKindBytes, BadExecutorBytes}

\* a ScopeMonitor definition with a name of 101 bytes, longer than DecodeMinBytes:
\* the bytes up to the hundredth name byte, and the rest
LongName == [i \in 1..101 |-> IF i = 101 THEN 98 ELSE 97]
LongRecord == Written(10, TypeDefinition(ScopeMonitor(2, LongName)))
LongRecordHead == <<0, 10, 12 * 8, 3, 2>> \o SubSeq(LongName, 1, 100)
LongRecordRest == <<98, 0>>
\* records fed in two pieces: [rec, head, rest, written]; written: the bytes are those
\* that write_tracing_event produces for rec
SplitRecords ==
    { [rec |-> TaskReadyRecord, head |-> SubSeq(RecordBytes(TaskReadyRecord), 1, 3),
       rest |-> SubSeq(RecordBytes(TaskReadyRecord), 4, 5), written |-> TRUE],
      [rec |-> LongRecord, head |-> LongRecordHead, rest |-> LongRecordRest,
       written |-> FALSE] }

\* the target sends the definition of a value monitor before its first value
ValueMonitorsDefined(recs) ==
    \A i \in 1..Len(recs) :
        recs[i].event.kind = "MonitorValue" =>
            \E j \in 1..(i - 1) :
                /\ recs[j].event.kind = "TypeDefinition"
                /\ recs[j].event.def.kind = "ValueMonitor"
                /\ recs[j].event.def.value_id = recs[i].event.value_id

\* the variables the decoder does not touch
other_than_decoder == <<tracing_vars, codec_vars, registry_vars, target_vars, extra_vars>>

TraceDataDecoder_feed(data) == internal_buffer' = internal_buffer \o data /\ last_call' = "feed"

CanFeed == ~decoder_panicked /\ feeds < MaxFeeds

HostFeedsRecords ==
    \E recs \in FedBatches :
        /\ CanFeed /\ pending = <<>>
        /\ TraceDataDecoder_feed(RecordsBytes(recs))
        /\ wire' = wire \o recs
        /\ intact' = (intact /\ ValueMonitorsDefined(wire \o recs))
        /\ feeds' = feeds + 1
        /\ UNCHANGED <<monitors, last_timestamp, decoder_panicked, pending, items, yielded,
                       attempts, other_than_decoder>>

HostFeedsHead ==
    \E s \in SplitRecords :
        /\ CanFeed /\ pending = <<>>
        /\ TraceDataDecoder_feed(s.head)
        /\ pending' = <<s>>
        /\ intact' = (intact /\ s.written /\ ValueMonitorsDefined(Append(wire, s.rec)))
        /\ feeds' = feeds + 1
        /\ UNCHANGED <<monitors, last_timestamp, decoder_panicked, wire, items, yielded,
                       attempts, other_than_decoder>>

HostFeedsRest ==
    /\ CanFeed /\ pending # <<>>
    /\ TraceDataDecoder_feed(pending[1].rest)
    /\ wire' = Append(wire, pending[1].rec)
    /\ pending' = <<>>
    /\ feeds' = feeds + 1
    /\ UNCHANGED <<monitors, last_timestamp, decoder_panicked, intact, items, yielded,
                   attempts, other_than_decoder>>

HostFeedsCorrupt ==
    \E data \in CorruptChunks :
        /\ CanFeed /\ pending = <<>>
        /\ TraceDataDecoder_feed(data)
        /\ intact' = FALSE
        /\ feeds' = feeds + 1
        /\ UNCHANGED <<monitors, last_timestamp, decoder_panicked, wire, pending, items,
                       yielded, attempts, other_than_decoder>>

HostDecodes ==
    \E r \in {TraceDataDecoder_decode(internal_buffer, monitors, last_timestamp)} :
        /\ ~decoder_panicked
        /\ internal_buffer' = r.internal_buffer
        /\ monitors' = r.monitors
        /\ last_timestamp' = r.last_timestamp
        /\ decoder_panicked' = r.panic
        /\ items' = r.items
        /\ yielded' = yielded \o r.items
        /\ attempts' = r.attempts
        /\ last_call' = "decode"
        /\ UNCHANGED <<wire, pending, intact, feeds, other_than_decoder>>

\* the engine, not used by the decoder
TracingUnused == TracingInstance_new /\ items_to_feed = 0 /\ script = <<>>

InitDecoder ==
    TraceDataDecoder_new /\ TracingUnused /\ ExtraUnused /\ CodecUnused /\ RegistryUnused /\ TargetUnused

NextDecoder ==
    \/ HostFeedsRecords
    \/ HostFeedsHead
    \/ HostFeedsRest
    \/ HostFeedsCorrupt
    \/ HostDecodes

SpecDecoder == InitDecoder /\ [][NextDecoder]_vars

Events(recs) == [i \in 1..Len(recs) |-> recs[i].event]
Payloads(its) == [i \in 1..Len(its) |-> its[i].payload]
\* the Duration of a number of microseconds below 2^31
Micros(us) == [hi |-> us \div DurationBase, lo |-> us % DurationBase]
\* the timestamp of the item yielded before the i-th one
TimestampBefore(i) == IF i = 1 THEN Micros(0) ELSE yielded[i - 1].timestamp
\* the stream fed so far consists of whole records written by write_tracing_event
WholeRecordsFed == intact /\ pending = <<>>

\* C13: after the bytes of whole records have been fed, decode returns one item per
\* fed record, in feed order and with the payload that was written: once decode has
\* returned, the payloads yielded so far are the events of the records fed so far.
C13_DecodeReturnsEveryFedRecord ==
    (last_call = "decode" /\ WholeRecordsFed) => Payloads(yielded) = Events(wire)

\* C14: the timestamps of the yielded items never decrease, and while the fed bytes
\* are those of written records (fed whole, in blocks or in pieces) the yielded
\* items are the first records of the stream, in their order, each with the payload
\* written and with the timestamp of the item before it plus the record's delta.
C14_YieldedInWireOrderWithTimestamps ==
    /\ \A i \in 1..Len(yielded) : Duration_le(TimestampBefore(i), yielded[i].timestamp)
    /\ intact =>
          /\ Len(yielded) <= Len(wire)
          /\ \A i \in 1..Len(yielded) :
                /\ yielded[i].payload = wire[i].event
                /\ yielded[i].timestamp =
                       Duration_add(TimestampBefore(i), Micros(wire[i].delta_us))

\* C14 witness: a decode of a stream of written records returned several items at
\* once, among them a record with a four-byte delta that was fed on its own.
C14_Witness ==
    /\ last_call = "decode" /\ intact
    /\ Len(items) >= 2
    /\ \E i \in 2..Len(items) : items[i].payload = PollStartRecord.event

\* C15: when a call of read_tracing_event inside decode runs out of bytes, none of
\* the bytes from the start of that record on are removed: after the decode the
\* internal buffer holds all the bytes that stood at and after the record's start.
C15_TruncatedRecordStaysBuffered ==
    last_call = "decode" =>
        \A i \in 1..Len(attempts) :
            (~attempts[i].some /\ attempts[i].eof) =>
                Len(internal_buffer) = attempts[i].len - attempts[i].start

\* C16: when a call of read_tracing_event inside decode fails although bytes are
\* left to read, decode makes a further call that starts exactly one byte after the
\* start of the failed one.
C16_ResyncOneByteAfterCorruptRecord ==
    last_call = "decode" =>
        \A i \in 1..Len(attempts) :
            (~attempts[i].some /\ ~attempts[i].eof) =>
                /\ i < Len(attempts)
                /\ attempts[i + 1].start = attempts[i].start + 1

(***************************************************************************)
(* Round trips through the codec: a value is written into a fresh          *)
(* BufferWriter and read back from the written bytes, as the tests of       *)
(* time_delta.rs, event_payload.rs and typedef_payload.rs do.               *)
(***************************************************************************)
\* 16-bit halves of the deltas tried: around 2^15, 2^31 and 2^32
DeltaHalves == {0, 1, 32767, 32768, 65535}
SampleDeltas == {TimeDelta(U32(hi, lo)) : hi \in DeltaHalves, lo \in DeltaHalves}

SampleTaskIds == {0, 258, 65535}
SampleExecutorIds == 0..7
SampleMonitorIds == {0, 255}
SampleU32 == {U32(0, 0), U32(57005, 48879), U32(65535, 65535)}
SampleU64 == {U64(U32(0, 0), U32(0, 1)), U64(U32(4660, 22136), U32(39612, 57072))}
SampleValues ==
    {MonitorValuePayload("U8", v) : v \in {0, 255}}
    \cup {MonitorValuePayload("U16", v) : v \in {0, 48879, 65535}}
    \cup {MonitorValuePayload("U32", v) : v \in SampleU32}
    \cup {MonitorValuePayload("U64", v) : v \in SampleU64}
    \cup {MonitorValuePayload("I8", v) : v \in {-128, -1, 0, 127}}
    \cup {MonitorValuePayload("I16", v) : v \in {-32768, -1, 0, 32767}}
    \cup {MonitorValuePayload("I32", v) : v \in SampleU32}
    \cup {MonitorValuePayload("I64", v) : v \in SampleU64}
\* names: empty, short, of the greatest accepted length, with a two-byte character,
\* with a NUL character inside, and of 30 bytes
SampleNames ==
    {<<>>, <<97, 98>>, Name20, <<195, 169, 97>>, <<97, 0, 98>>, [i \in 1..30 |-> 97]}
SampleDefinitions ==
    {EmbassyTaskCreated(t, U32(8192, 64), e) : t \in SampleU32, e \in {0, 7}}
    \cup {EmbassyTaskEnded(t, U32(8192, 64), e) : t \in SampleU32, e \in {0, 7}}
    \cup {FunctionMonitor(m, a) : m \in SampleMonitorIds, a \in SampleU32}
    \cup {ScopeMonitor(7, n) : n \in SampleNames}
    \cup {ValueMonitor(13, t, n) : t \in {0, 7}, n \in SampleNames}
SampleEvents ==
    {EmbassyTaskReady(t) : t \in SampleTaskIds}
    \cup {EmbassyTaskExecBeginCore0(t) : t \in SampleTaskIds}
    \cup {EmbassyTaskExecBeginCore1(t) : t \in SampleTaskIds}
    \cup {EmbassyTaskExecEndCore0(e) : e \in SampleExecutorIds}
    \cup {EmbassyTaskExecEndCore1(e) : e \in SampleExecutorIds}
    \cup {EmbassyExecutorPollStart(e) : e \in SampleExecutorIds}
    \cup {EmbassyExecutorIdle(e) : e \in SampleExecutorIds}
    \cup {MonitorStartCore0(m) : m \in SampleMonitorIds}
    \cup {MonitorStartCore1(m) : m \in SampleMonitorIds}
    \cup {MonitorEndCore0, MonitorEndCore1}
    \cup {MonitorValue(7, v) : v \in SampleValues}
    \cup {TypeDefinition(d) : d \in SampleDefinitions}

\* the deltas of whole records: the least, the greatest of two bytes, the least and the
\* greatest of four bytes
RecordDeltas ==
    {TimeDelta(U32(0, 0)), TimeDelta(U32(0, 32767)), TimeDelta(U32(0, 32768)),
     TimeDelta(U32(65535, 65535))}

\* the variables the codec round trip does not touch
other_than_codec == <<tracing_vars, decoder_vars, registry_vars, target_vars, extra_vars>>

\* timestamp.write_bytes(&mut buffer) on a fresh writer
WriteDelta ==
    /\ codec_pc = "start" /\ codec_in.what = "delta"
    /\ codec_writer' = TimeDelta_write_bytes(codec_in.delta, BufferWriter_new)
    /\ codec_pc' = "written"
    /\ UNCHANGED <<codec_in, codec_out, other_than_codec>>

\* TimeDelta::read_bytes on a reader over the written bytes
ReadDelta ==
    /\ codec_pc = "written" /\ codec_in.what = "delta"
    /\ codec_out' = TimeDelta_read_bytes(BufferReader_new(BufferWriter_as_slice(codec_writer)))
    /\ codec_pc' = "read"
    /\ UNCHANGED <<codec_in, codec_writer, other_than_codec>>

\* event.write_bytes(&mut writer) on a fresh writer
WriteEvent ==
    /\ codec_pc = "start" /\ codec_in.what = "event"
    /\ \E w \in {EventPayload_write_bytes(codec_in.event, BufferWriter_new)} :
          /\ codec_writer' = w
          /\ codec_pc' = IF w.panic THEN "panicked" ELSE "written"
    /\ UNCHANGED <<codec_in, codec_out, other_than_codec>>

\* the value reader of the tests: for every value id it reads a value of the type that
\* was written (of type u32, id 2, when the event carries no value)
PrimedValueReader(event) ==
    [value_id \in 0..255 |->
        IF event.kind = "MonitorValue" THEN MonitorValuePayload_type_id(event.value) ELSE 2]

\* EventPayload::from_bytes(reader.read_byte().unwrap(), &mut reader, monitor_value_reader)
ReadEvent ==
    /\ codec_pc = "written" /\ codec_in.what = "event"
    /\ codec_out' =
          Try(BufferReader_read_byte(BufferReader_new(BufferWriter_as_slice(codec_writer))),
              LAMBDA event_type :
                  EventPayload_from_bytes(event_type.v, event_type.r,
                                          PrimedValueReader(codec_in.event)))
    /\ codec_pc' = "read"
    /\ UNCHANGED <<codec_in, codec_writer, other_than_codec>>

\* write_tracing_event(event) with the delta that TimeDelta::from_now measured
WriteRecord ==
    /\ codec_pc = "start" /\ codec_in.what = "record"
    /\ \E w \in {write_tracing_event(codec_in.delta, codec_in.event)} :
          /\ codec_writer' = w
          /\ codec_pc' = IF w.panic THEN "panicked" ELSE "written"
    /\ UNCHANGED <<codec_in, codec_out, other_than_codec>>

\* read_tracing_event on the bytes handed to write_tracing_data
ReadRecord ==
    /\ codec_pc = "written" /\ codec_in.what = "record"
    /\ codec_out' = read_tracing_event(BufferReader_new(BufferWriter_as_slice(codec_writer)),
                                       PrimedValueReader(codec_in.event))
    /\ codec_pc' = "read"
    /\ UNCHANGED <<codec_in, codec_writer, other_than_codec>>

InitCodec ==
    /\ codec_pc = "start"
    /\ codec_in \in {[what |-> "delta", delta |-> d] : d \in SampleDeltas}
                    \cup {[what |-> "event", event |-> e] : e \in SampleEvents}
                    \cup {[what |-> "record", delta |-> d, event |-> e] :
                             d \in RecordDeltas, e \in SampleEvents}
    /\ codec_writer = BufferWriter_new
    /\ codec_out = <<>>
    /\ TracingUnused /\ ExtraUnused
    /\ TraceDataDecoder_new
    /\ RegistryUnused
    /\ TargetUnused

NextCodec ==
    \/ WriteDelta
    \/ ReadDelta
    \/ WriteEvent
    \/ ReadEvent
    \/ WriteRecord
    \/ ReadRecord

SpecCodec == InitCodec /\ [][NextCodec]_vars

\* min(d, 2^31 - 1) of a u32
CappedDelta(d) == IF d.hi >= 32768 THEN U32(32767, 65535) ELSE d

\* C17: the TimeDelta read back from the bytes that write_bytes wrote for a delta d
\* is min(d, 2^31 - 1), all written bytes are read, and the bytes are 2 if d < 2^15
\* and 4 otherwise.
C17_TimeDeltaRoundTrip ==
    (codec_pc = "read" /\ codec_in.what = "delta") =>
        /\ codec_out.some
        /\ TimeDelta_get_delta_us(codec_out.v) = CappedDelta(codec_in.delta.delta)
        /\ BufferReader_get_position(codec_out.r) = Len(BufferWriter_as_slice(codec_writer))
        /\ Len(BufferWriter_as_slice(codec_writer)) =
               IF codec_in.delta.delta.hi = 0 /\ codec_in.delta.delta.lo < 32768 THEN 2 ELSE 4

\* C17 witness: the delta 2^32 - 1 was written in four bytes and read back as 2^31 - 1.
C17_Witness ==
    /\ codec_pc = "read" /\ codec_in.what = "delta"
    /\ codec_in.delta.delta = U32(65535, 65535)
    /\ BufferWriter_as_slice(codec_writer) = <<255, 255, 255, 255>>
    /\ codec_out.v.delta = U32(32767, 65535)

\* C18 as claimed: every event payload that was written is read back equal.
C18_EveryPayloadRoundTrips ==
    codec_in.what = "event" =>
        /\ codec_pc # "panicked"
        /\ codec_pc = "read" => (codec_out.some /\ codec_out.v = codec_in.event)

\* the name a type definition carries, if any
NameOf(event) ==
    IF event.kind = "TypeDefinition" /\ event.def.kind \in {"ScopeMonitor", "ValueMonitor"}
    THEN event.def.name
    ELSE <<>>
\* a name that a NUL-terminated field of the 32-byte writer can carry
NameFits(name) == Len(name) <= 20 /\ \A i \in 1..Len(name) : name[i] # 0

\* C18: an event payload whose name, if it has one, is at most 20 bytes long and holds
\* no NUL byte is written without a panic and read back equal, all written bytes
\* being read; the header byte carries the event id and the short executor id.
C18_PayloadRoundTrip ==
    (codec_in.what = "event" /\ NameFits(NameOf(codec_in.event))) =>
        /\ codec_pc # "panicked"
        /\ codec_pc = "read" =>
              /\ codec_out.some
              /\ codec_out.v = codec_in.event
              /\ BufferReader_get_position(codec_out.r) = Len(BufferWriter_as_slice(codec_writer))
              /\ \A e \in EventPayload_get_executor_id(codec_in.event) :
                    BufferWriter_as_slice(codec_writer)[1] % 8 = e

\* C18 witness: ExecutorIdle of executor 7 was written as the single byte 6 * 8 + 7
\* and read back with executor 7.
C18_Witness ==
    /\ codec_pc = "read" /\ codec_in.what = "event"
    /\ codec_in.event = EmbassyExecutorIdle(7)
    /\ BufferWriter_as_slice(codec_writer) = <<55>>
    /\ codec_out.v = EmbassyExecutorIdle(7)

(***************************************************************************)
(* Executor registry and the embassy hooks that use it                     *)
(* (rustmeter-beacon-target: executor_registry.rs, embassy_trace.rs)       *)
(***************************************************************************)
\* distinct long executor ids the hooks are called with
MaxExecutors == 9

\* Option<u3>
Some_u3(i) == <<i>>
None_u3 == <<>>

\* the payload _embassy_trace_poll_start builds from the short id
HookPayload(executor_id) == EmbassyExecutorPollStart(executor_id)

\* the long ids seen so far, in slots or as an argument of a hook
KnownExecutors ==
    ({slots[i] : i \in 1..NumSlots} \cup {hooks[t].executor_id : t \in Threads}) \ {0}
HighestExecutor ==
    IF KnownExecutors = {} THEN 0 ELSE CHOOSE m \in KnownExecutors : \A k \in KnownExecutors : k <= m
\* the long ids a hook is called with: one seen before or the next new one.  Long ids
\* are non-zero addresses that the registry only compares for equality, so new ids
\* are taken in increasing order.
CallableExecutors ==
    1..(IF HighestExecutor < MaxExecutors THEN HighestExecutor + 1 ELSE MaxExecutors)

\* the variables the registry and the hooks do not touch
other_than_registry == <<tracing_vars, decoder_vars, codec_vars, target_vars, extra_vars>>

\* slot.load(Ordering::Relaxed): the value the slot holds, or the 0 it held before while
\* the store of another thread is not yet visible to the loading thread
Relaxed_load(value) == {value, 0}

\* a compare_exchange that stores without comparing
compare_exchange_blind(value, current, new) ==
    [ok |-> TRUE, actual |-> value, stored |-> new]

\* slot.compare_exchange(current, new, SeqCst, Relaxed) on a slot that holds value
compare_exchange(value, current, new) ==
    IF value = current
    THEN [ok |-> TRUE, actual |-> value, stored |-> new]
    ELSE [ok |-> FALSE, actual |-> value, stored |-> value]

\* lookup_or_register returns res to the hook of thread t, which unwraps it, builds the
\* payload and calls write_tracing_event; unwrap of None panics
HookReturns(t, res, via) ==
    /\ hooks' = [hooks EXCEPT ![t].pc = IF res = None_u3 THEN "panicked" ELSE "idle",
                              ![t].result = res,
                              ![t].via = via,
                              ![t].written = IF res = None_u3
                                             THEN <<>>
                                             ELSE <<HookPayload(res[1])>>]
    /\ returned' = IF res = None_u3
                   THEN returned
                   ELSE returned \cup {<<hooks[t].executor_id, res[1]>>}

\* the first slot from i on that holds 0 or executor_id, NumSlots if there is none.
\* A slot that holds another long id never changes again (only compare_exchange from 0
\* stores), and the closure returns None for it whether its load sees that id or a
\* stale 0 (the compare_exchange then fails with that id), so find_map passes it.
RECURSIVE FirstOpenSlot(_, _)
FirstOpenSlot(i, executor_id) ==
    IF i = NumSlots THEN NumSlots
    ELSE IF slots[i + 1] \in {0, executor_id} THEN i
    ELSE FirstOpenSlot(i + 1, executor_id)

\* _embassy_trace_poll_start is called on thread t and lookup_or_register starts at
\* slot 0
HookEnters(t, executor_id) ==
    /\ hooks[t].pc = "idle"
    /\ hooks' = [hooks EXCEPT ![t] = [pc |-> "load", executor_id |-> executor_id, i |-> 0,
                                      result |-> None_u3, via |-> "", written |-> <<>>]]
    /\ UNCHANGED <<slots, returned, other_than_registry>>

\* find_map up to the next slot that is free or holds executor_id, and step 1 of the
\* closure on it: a load that sees executor_id returns the slot; a stale 0 on a slot that
\* holds executor_id leads to a compare_exchange that fails with executor_id and returns
\* the slot too; a 0 on a free slot leads to the compare_exchange
SlotLoad(t) ==
    /\ hooks[t].pc = "load"
    /\ \E i \in {FirstOpenSlot(hooks[t].i, hooks[t].executor_id)} :
          IF i = NumSlots
          THEN HookReturns(t, None_u3, "exhausted")
          ELSE \E item_id \in Relaxed_load(slots[i + 1]) :
                  IF item_id = hooks[t].executor_id
                  THEN HookReturns(t, Some_u3(i), "found")
                  ELSE IF slots[i + 1] = hooks[t].executor_id
                       THEN HookReturns(t, Some_u3(i), "lost")
                       ELSE /\ hooks' = [hooks EXCEPT ![t].pc = "cas", ![t].i = i]
                            /\ UNCHANGED returned
    /\ UNCHANGED <<slots, other_than_registry>>

\* step 2 of the closure: compare_exchange(0, executor_id) and the match on its result;
\* after a failure with another id find_map goes on with the next slot
SlotCompareExchange(t) ==
    /\ hooks[t].pc = "cas"
    /\ \E res \in {compare_exchange(slots[hooks[t].i + 1], 0, hooks[t].executor_id)} :
          /\ slots' = [slots EXCEPT ![hooks[t].i + 1] = res.stored]
          /\ IF res.ok
             THEN HookReturns(t, Some_u3(hooks[t].i), "registered")
             ELSE IF res.actual = hooks[t].executor_id
                  THEN HookReturns(t, Some_u3(hooks[t].i), "lost")
                  ELSE /\ hooks' = [hooks EXCEPT ![t].i = @ + 1, ![t].pc = "load"]
                       /\ UNCHANGED returned
    /\ UNCHANGED other_than_registry

InitRegistry ==
    RegistryUnused /\ TracingUnused /\ ExtraUnused /\ TraceDataDecoder_new /\ CodecUnused /\ TargetUnused

NextRegistry ==
    \/ \E t \in Threads, executor_id \in CallableExecutors : HookEnters(t, executor_id)
    \/ \E t \in Threads : SlotLoad(t)
    \/ \E t \in Threads : SlotCompareExchange(t)

SpecRegistry == InitRegistry /\ [][NextRegistry]_vars

\* C19: under every interleaving of the hooks' lookup_or_register calls with non-zero
\* long ids, a long id is stored in at most one slot, every short id returned for a
\* long id is the index of the slot that holds it, the calls for one long id return
\* one short id, and two long ids never get the same short id.
C19_ShortIdsAreUnique ==
    /\ \A i, j \in 1..NumSlots : (slots[i] # 0 /\ slots[i] = slots[j]) => i = j
    /\ \A p \in returned : slots[p[2] + 1] = p[1]
    /\ \A p, q \in returned : (p[1] = q[1]) <=> (p[2] = q[2])

\* C19 witness: two threads asked for the same long id at the same time; one stored it
\* in slot 1 with its compare_exchange, the other lost the compare_exchange, found the
\* same id in the slot and returned the same short id 1.
C19_Witness ==
    \E t, u \in Threads :
        /\ hooks[t].via = "registered" /\ hooks[u].via = "lost"
        /\ hooks[t].executor_id = hooks[u].executor_id
        /\ hooks[t].result = Some_u3(1) /\ hooks[u].result = Some_u3(1)
        /\ slots[1] # 0 /\ slots[1] # hooks[t].executor_id

\* every slot holds a long id other than executor_id
RegistryFullOfOthers(executor_id) ==
    \A i \in 1..NumSlots : slots[i] # 0 /\ slots[i] # executor_id

\* C20: when all 8 slots hold other long ids, lookup_or_register returns None for a
\* further executor, and the hook that called it writes no event and returns.
C20_FullRegistryDropsEvent ==
    \A t \in Threads :
        /\ (hooks[t].via # "" /\ RegistryFullOfOthers(hooks[t].executor_id)) =>
               hooks[t].result = None_u3
        /\ (hooks[t].via # "" /\ hooks[t].result = None_u3) =>
               (hooks[t].pc = "idle" /\ hooks[t].written = <<>>)

(***************************************************************************)
(* Instrumentation sites and their ids                                     *)
(* (rustmeter-beacon-target: monitors.rs, numeric_registry.rs)             *)
(***************************************************************************)
\* the variables the instrumentation sites do not touch
other_than_sites ==
    <<tracing_vars, decoder_vars, codec_vars, registry_vars, rtt_vars, emit_vars, extra_vars>>

\* next_id.fetch_add(1, SeqCst): the value before the addition and the value stored.
\* The addition wraps at the width of usize, which takes 2^32 allocations; a site
\* allocates at most once per thread
fetch_add(value, n) == [previous |-> value, stored |-> value + n]

\* LOCAL_MONITOR_VALUE_ID.load(Ordering::Relaxed) by a thread: the stored id, or the
\* initial 0 as long as the thread has not observed the stored id
LOCAL_MONITOR_VALUE_ID_load(t, site) ==
    IF site \in callers[t].seen THEN {local_ids[site]} ELSE {local_ids[site], 0}

\* a match on the compare_exchange result that returns the caller's own id on Err
registered_own(res, id) == IF res.ok THEN <<id, TRUE>> ELSE <<id, FALSE>>

\* the match on the compare_exchange result: (id, true) on Ok, (actual, false) on Err
registered(res, id) == IF res.ok THEN <<id, TRUE>> ELSE <<res.actual, FALSE>>

\* get_static_id_by_registry! returns result to thread t
SiteReturns(t, result) ==
    /\ callers' = [callers EXCEPT ![t].pc = "idle",
                                  ![t].result = result,
                                  ![t].seen = @ \cup {callers[t].site}]
    /\ obtained' = obtained \cup {<<callers[t].site, result[1]>>}
    /\ newly' = [newly EXCEPT ![callers[t].site] = IF result[2] THEN @ + 1 ELSE @]

\* thread t comes to an instrumentation site
SiteEnters(t, site) ==
    /\ callers[t].pc = "idle"
    /\ callers' = [callers EXCEPT ![t].pc = "load", ![t].site = site, ![t].id = 0,
                                  ![t].result = <<>>]
    /\ UNCHANGED <<next_id, local_ids, obtained, newly, other_than_sites>>

\* match LOCAL_MONITOR_VALUE_ID.load(Relaxed): 0 goes on to allocate, id => (id, false)
SiteLoads(t) ==
    /\ callers[t].pc = "load"
    /\ \E id \in LOCAL_MONITOR_VALUE_ID_load(t, callers[t].site) :
          IF id = 0
          THEN /\ callers' = [callers EXCEPT ![t].pc = "allocate"]
               /\ UNCHANGED <<obtained, newly>>
          ELSE SiteReturns(t, <<id, FALSE>>)
    /\ UNCHANGED <<next_id, local_ids, other_than_sites>>

\* let id = VALUE_MONITOR_REGISTRY.allocate_new_id()
NumericRegistry_allocate_new_id(t) ==
    /\ callers[t].pc = "allocate"
    /\ \E res \in {fetch_add(next_id, 1)} :
          /\ next_id' = res.stored
          /\ callers' = [callers EXCEPT ![t].pc = "cas", ![t].id = res.previous]
    /\ UNCHANGED <<local_ids, obtained, newly, other_than_sites>>

\* LOCAL_MONITOR_VALUE_ID.compare_exchange(0, id, Relaxed, Relaxed) and the match on it
SiteCompareExchange(t) ==
    /\ callers[t].pc = "cas"
    /\ \E res \in {compare_exchange(local_ids[callers[t].site], 0, callers[t].id)} :
          /\ local_ids' = [local_ids EXCEPT ![callers[t].site] = res.stored]
          /\ SiteReturns(t, registered(res, callers[t].id))
    /\ UNCHANGED <<next_id, other_than_sites>>

InitSites ==
    /\ SitesUnused /\ RttUnused /\ EmitUnused
    /\ TracingUnused /\ ExtraUnused /\ TraceDataDecoder_new /\ CodecUnused /\ RegistryUnused

NextSites ==
    \/ \E t \in Threads, site \in Sites : SiteEnters(t, site)
    \/ \E t \in Threads : SiteLoads(t)
    \/ \E t \in Threads : NumericRegistry_allocate_new_id(t)
    \/ \E t \in Threads : SiteCompareExchange(t)

SpecSites == InitSites /\ [][NextSites]_vars

\* C21: under every interleaving of the threads' uses of a site, all ids returned for
\* the site are one non-zero id, which is the id the site stores, and once a caller has
\* returned from the site exactly one caller has got registered_newly = true.
C21_OneIdPerSite ==
    \A site \in Sites :
        /\ \A p \in obtained : p[1] = site => (p[2] # 0 /\ p[2] = local_ids[site])
        /\ newly[site] <= 1
        /\ (\E p \in obtained : p[1] = site) => newly[site] = 1

\* C21 witness: both threads came to site 1 before it had an id; thread 2 allocated id 1
\* and thread 1 id 2, thread 1 stored its id first and got (2, true), and thread 2 lost
\* the compare_exchange and got (2, false).
C21_Witness ==
    /\ callers[1].site = 1 /\ callers[2].site = 1
    /\ callers[2].id = 1 /\ callers[1].id = 2
    /\ callers[1].result = <<2, TRUE>>
    /\ callers[2].result = <<2, FALSE>>

\* an assert that only asks the name itself to fit the buffer
name_len_assert_loose(name) == Len(name) <= BufferWriterCapacity
\* the compile-time assert of monitor_scoped! and monitor_value! on the name's length
name_len_assert(name) == Len(name) <= 20

\* C25: a record of a time delta, the header byte and an event payload whose name, if it
\* has one, passes the 20-byte assert is serialized without writing past the 32 bytes
\* of the BufferWriter, and is at most 32 bytes long.
C25_RecordFitsBuffer ==
    (codec_in.what = "record" /\ name_len_assert(NameOf(codec_in.event))) =>
        /\ codec_pc # "panicked"
        /\ ~codec_writer.panic
        /\ Len(BufferWriter_as_slice(codec_writer)) <= BufferWriterCapacity

\* C25 witness: the longest record, a ValueMonitor definition with a 20-byte name after a
\* four-byte delta, was written in 29 bytes.
C25_Witness ==
    /\ codec_in.what = "record" /\ codec_pc = "written"
    /\ codec_in.event.kind = "TypeDefinition" /\ codec_in.event.def.kind = "ValueMonitor"
    /\ Len(codec_in.event.def.name) = 20
    /\ Len(BufferWriter_as_slice(codec_writer)) = 29
    /\ ~codec_writer.panic

(***************************************************************************)
(* RTT transport of the target (rustmeter-beacon-target: tracing_rtt.rs)   *)
(***************************************************************************)
\* write_tracing_event calls made in one run
MaxEmissions == 4

\* the variables the RTT transport does not touch
other_than_rtt ==
    <<tracing_vars, decoder_vars, codec_vars, registry_vars, site_vars, emit_vars, extra_vars>>

\* a + b of two counts without a width
Count_add(a, b) ==
    Count(a.hi + b.hi + ((a.lo + b.lo) \div 65536), (a.lo + b.lo) % 65536)

\* AtomicU32::fetch_add: the addition wraps at 2^32
u32_wrapping_add(a, b) ==
    U32((a.hi + b.hi + ((a.lo + b.lo) \div 65536)) % 65536, (a.lo + b.lo) % 65536)

\* the bytes of a DataLoss record: TimeDelta::from_now() right after the caller's
\* from_now (delta 0), the header byte of event kind 13 and the count as u32
DataLossRecord(dropped_events) ==
    BufferWriter_as_slice(
        BufferWriter_write_bytes(
            BufferWriter_write_byte(TimeDelta_write_bytes(TimeDelta_from_us(0), BufferWriter_new),
                                    104),
            u32_to_le_bytes(dropped_events)))

\* UpChannel::write in mode NoBlockSkip: the data is written whole if it fits the free
\* space, and not at all otherwise
UpChannel_write(free, data) ==
    IF Len(data) <= free
    THEN [written |-> Len(data), free |-> free - Len(data)]
    ELSE [written |-> 0, free |-> free]

\* the host's probe reads host_read bytes and frees their space in the up channel
UpChannel_read(free, host_read) ==
    IF free + host_read <= RttChannelBytes THEN free + host_read ELSE RttChannelBytes

\* the first block of write_tracing_data: previously_dropped is 0 when the counter is 0
\* and the block is skipped; else the counter is swapped to 0, the DataLoss record is
\* written and, if it was not accepted, the count is added back
WriteDataLoss(previously_dropped) ==
    IF previously_dropped = U32(0, 0)
    THEN [tried |-> FALSE, accepted |-> FALSE, free |-> rtt_free, counter |-> U32(0, 0)]
    ELSE [tried |-> TRUE,
          accepted |-> UpChannel_write(rtt_free, DataLossRecord(previously_dropped)).written
                          >= Len(DataLossRecord(previously_dropped)),
          free |-> UpChannel_write(rtt_free, DataLossRecord(previously_dropped)).free,
          counter |-> IF UpChannel_write(rtt_free, DataLossRecord(previously_dropped)).written
                            < Len(DataLossRecord(previously_dropped))
                      THEN u32_wrapping_add(U32(0, 0), previously_dropped)
                      ELSE U32(0, 0)]

\* write_tracing_data(data) on the RTT channel; the host's probe may read host_read bytes
\* between the two writes to the channel
TracingRtt_write_tracing_data(data, host_read) ==
    \E loss \in {WriteDataLoss(DROPPED_EVENTS_COUNTER)} :
    \E original \in {UpChannel_write(UpChannel_read(loss.free, host_read), data)} :
        /\ DROPPED_EVENTS_COUNTER' =
              IF original.written < Len(data)
              THEN u32_wrapping_add(loss.counter, U32(0, 1))
              ELSE loss.counter
        /\ rtt_free' = original.free
        /\ rtt_ledger' =
              [rejected |-> IF original.written < Len(data)
                            THEN Count_add(rtt_ledger.rejected, Count(0, 1))
                            ELSE rtt_ledger.rejected,
               reported |-> IF loss.accepted
                            THEN Count_add(rtt_ledger.reported, DROPPED_EVENTS_COUNTER)
                            ELSE rtt_ledger.reported]
        /\ rtt_last' =
              [unreported |-> rtt_ledger.rejected # rtt_ledger.reported,
               dataloss |-> IF ~loss.tried THEN "none"
                            ELSE IF loss.accepted THEN "accepted" ELSE "rejected",
               data |-> IF original.written < Len(data) THEN "rejected" ELSE "accepted"]

\* the events the target writes in the model: of 3 or 5, 5 or 7, and 26 or 28 bytes
RttEvents ==
    {EmbassyExecutorIdle(1), EmbassyTaskReady(258), TypeDefinition(ScopeMonitor(1, Name20))}
\* microseconds between two events: a short and an extended TimeDelta
RttElapsed == {10, 40000}
\* bytes the host's probe reads at a time
HostReadSizes == {0, 4, 16}

\* write_tracing_event(event) in one context, elapsed microseconds after the last one:
\* TimeDelta::from_now(), the serialization and write_tracing_data
WriteTracingEvent(event, elapsed, host_read) ==
    /\ rtt_calls < MaxEmissions
    /\ rtt_calls' = rtt_calls + 1
    /\ clock_us' = clock_us + elapsed
    /\ LAST_TIMESTAMP' = clock_us + elapsed
    /\ \E buffer \in {write_tracing_event(
                         TimeDelta_from_us(clock_us + elapsed - LAST_TIMESTAMP), event)} :
          TracingRtt_write_tracing_data(BufferWriter_as_slice(buffer), host_read)
    /\ UNCHANGED other_than_rtt

\* the host's probe reads from the up channel between two events
HostReads(host_read) ==
    /\ rtt_free < RttChannelBytes
    /\ rtt_free' = UpChannel_read(rtt_free, host_read)
    /\ UNCHANGED <<clock_us, LAST_TIMESTAMP, DROPPED_EVENTS_COUNTER, rtt_ledger, rtt_last,
                   rtt_calls, other_than_rtt>>

\* the transport when the channel has been full for 2^32 - 2 event records
RttSaturated ==
    /\ clock_us = 0
    /\ LAST_TIMESTAMP = 0
    /\ DROPPED_EVENTS_COUNTER = U32(65535, 65534)
    /\ rtt_free = 0
    /\ rtt_ledger = [rejected |-> Count(65535, 65534), reported |-> Count(0, 0)]
    /\ rtt_last = [unreported |-> TRUE, dataloss |-> "rejected", data |-> "rejected"]
    /\ rtt_calls = 0

InitRtt ==
    /\ RttUnused \/ RttSaturated
    /\ SitesUnused /\ EmitUnused
    /\ TracingUnused /\ ExtraUnused /\ TraceDataDecoder_new /\ CodecUnused /\ RegistryUnused

NextRtt ==
    \/ \E event \in RttEvents, elapsed \in RttElapsed, host_read \in HostReadSizes :
          WriteTracingEvent(event, elapsed, host_read)
    \/ \E host_read \in HostReadSizes \ {0} : HostReads(host_read)

SpecRtt == InitRtt /\ [][NextRtt]_vars

\* C23: between write_tracing_data calls, the events reported lost by the accepted
\* DataLoss records plus the dropped-events counter are as many as the event records that
\* the channel rejected.
C23_DropsAreAccounted ==
    Count_add(rtt_ledger.reported, DROPPED_EVENTS_COUNTER) = rtt_ledger.rejected

\* C24: a write_tracing_data call that found dropped events not yet reported has its
\* event record accepted only if its DataLoss record was accepted.
C24_DataLossPrecedesData ==
    (rtt_last.unreported /\ rtt_last.data = "accepted") => rtt_last.dataloss = "accepted"

(***************************************************************************)
(* The emission path under interleaving (rustmeter-beacon-core: tracing.rs,*)
(* time_delta.rs)                                                          *)
(***************************************************************************)
\* microseconds the clock advances in one run, in steps of ClockStep
MaxClockTicks == 3
ClockStep == 10

\* the variables the emission path does not touch
other_than_emit ==
    <<tracing_vars, decoder_vars, codec_vars, registry_vars, site_vars,
      DROPPED_EVENTS_COUNTER, rtt_free, rtt_ledger, rtt_last, extra_vars>>

\* u32::wrapping_sub of two clock readings
u32_wrapping_sub(a, b) == IF a >= b THEN U32(0, a - b) ELSE U32(65535, 65536 - (b - a))

\* the deltas of the records on the wire, added up modulo 2^32
RECURSIVE SumOfDeltas(_)
SumOfDeltas(records) ==
    IF records = <<>> THEN U32(0, 0)
    ELSE u32_wrapping_add(records[1].delta, SumOfDeltas(Tail(records)))

\* the microsecond counter advances
Tick ==
    /\ clock_us < MaxClockTicks * ClockStep
    /\ clock_us' = clock_us + ClockStep
    /\ UNCHANGED <<LAST_TIMESTAMP, rtt_calls, emitters, sent, other_than_emit>>

\* write_tracing_event enters TimeDelta::from_now: now = get_tracing_time_us().
\* No critical section is taken: another context may stand anywhere in the function.
get_tracing_time_us(c) ==
    /\ emitters[c].pc = "idle"
    /\ rtt_calls < MaxEmissions
    /\ rtt_calls' = rtt_calls + 1
    /\ emitters' = [emitters EXCEPT ![c] = [@ EXCEPT !.pc = "sampled", !.now = clock_us]]
    /\ UNCHANGED <<clock_us, LAST_TIMESTAMP, sent, other_than_emit>>

\* delta = now.wrapping_sub(LAST_TIMESTAMP); order counts the deltas computed so far
wrapping_sub_LAST_TIMESTAMP(c) ==
    /\ emitters[c].pc = "sampled"
    /\ emitters' = [emitters EXCEPT ![c] =
                       [@ EXCEPT !.pc = "computed",
                                 !.delta = u32_wrapping_sub(emitters[c].now, LAST_TIMESTAMP),
                                 !.order = 1 + Len(sent)
                                     + Cardinality({d \in Contexts :
                                                       emitters[d].pc \in {"computed", "stored"}})]]
    /\ UNCHANGED <<clock_us, LAST_TIMESTAMP, rtt_calls, sent, other_than_emit>>

\* LAST_TIMESTAMP = now
store_LAST_TIMESTAMP(c) ==
    /\ emitters[c].pc = "computed"
    /\ LAST_TIMESTAMP' = emitters[c].now
    /\ emitters' = [emitters EXCEPT ![c].pc = "stored"]
    /\ UNCHANGED <<clock_us, rtt_calls, sent, other_than_emit>>

\* the record is serialized and handed to write_tracing_data
write_tracing_data(c) ==
    /\ emitters[c].pc = "stored"
    /\ sent' = Append(sent, [delta |-> emitters[c].delta, order |-> emitters[c].order,
                             now |-> emitters[c].now])
    /\ emitters' = [emitters EXCEPT ![c] = EmitterIdle]
    /\ UNCHANGED <<clock_us, LAST_TIMESTAMP, rtt_calls, other_than_emit>>

InitEmit ==
    /\ RttUnused /\ EmitUnused /\ SitesUnused
    /\ TracingUnused /\ ExtraUnused /\ TraceDataDecoder_new /\ CodecUnused /\ RegistryUnused

NextEmit ==
    \/ Tick
    \/ \E c \in Contexts : get_tracing_time_us(c)
    \/ \E c \in Contexts : wrapping_sub_LAST_TIMESTAMP(c)
    \/ \E c \in Contexts : store_LAST_TIMESTAMP(c)
    \/ \E c \in Contexts : write_tracing_data(c)

SpecEmit == InitEmit /\ [][NextEmit]_vars

\* C22: records reach the transport in the order their deltas were computed and, when no
\* emission is in progress, the deltas on the wire sum to the clock time of the last
\* record, which is the time elapsed since the clock's start at the first delta's base.
C22_EmissionIsSequential ==
    /\ \A i \in 1..Len(sent) : sent[i].order = i
    /\ (\A c \in Contexts : emitters[c].pc = "idle")
          => SumOfDeltas(sent) = U32(0, LAST_TIMESTAMP)

\* the executors of a core that are Polling a task
PollingExecutors(c) == {e \in Executors(c) : Executor(c, e).current_state.k = "Polling"}

\* C28: a MonitorStart with a known monitor id adds its monitor to exactly one stack of
\* its core and changes nothing else there: to the monitor stack of task T if an
\* executor of the core is Polling(T), and to the core-level monitor stack otherwise.
C28_MonitorStartOnOneStack ==
    [][ (Fed /\ last'.item.kind = "MonitorStart"
             /\ last'.item.monitor_id \in DOMAIN monitor_code_names) =>
            \A c \in CoreIds : last'.item.core = c =>
                LET entry == [name |-> monitor_code_names[last'.item.monitor_id],
                              ts |-> latest_timestamp']
                IN  IF PollingExecutors(c) # {}
                    THEN \E e \in PollingExecutors(c) :
                            Core(c)' = [Core(c) EXCEPT
                                !.executors[e].tasks[Executor(c, e).current_state.task_id]
                                    .current_monitors = Append(@, entry)]
                    ELSE Core(c)' = [Core(c) EXCEPT !.monitor_stack = <<entry>> \o @]
      ]_vars

\* the pair (executor, task) has a TaskTrace on the core
HasTaskTrace(c, e, t) == e \in Executors(c) /\ t \in Tasks(c, e)
\* the state in which the constructor for an event kind creates a TaskTrace
CreatedIn(kind) ==
    CASE kind = "EmbassyTaskCreated" -> TaskSpawned
      [] kind = "EmbassyTaskReady" -> TaskReady
      [] OTHER -> TaskRunning

\* C29: the first task-new, task-ready or task-exec-begin event that names a pair
\* (executor, task) without a TaskTrace creates one, in state Spawned, Ready or Running
\* respectively, and a task-new event for a pair that has a TaskTrace leaves that one
\* in place.
C29_TaskTraceCreatedByFirstEvent ==
    [][ (Fed /\ ~last'.desync
             /\ last'.item.kind \in {"EmbassyTaskCreated", "EmbassyTaskReady",
                                      "EmbassyTaskExecBegin"}) =>
            \A e \in ExecIds, t \in TaskIds :
                (last'.item.executor_id = e /\ last'.item.task_id = t) =>
                    /\ (\A c \in CoreIds : ~HasTaskTrace(c, e, t)) =>
                          \E c \in CoreIds :
                              /\ HasTaskTrace(c, e, t)'
                              /\ Task(c, e, t)'.state = CreatedIn(last'.item.kind)
                    /\ \A c \in CoreIds :
                          (HasTaskTrace(c, e, t) /\ last'.item.kind = "EmbassyTaskCreated") =>
                              /\ HasTaskTrace(c, e, t)'
                              /\ Task(c, e, t)' = Task(c, e, t)
      ]_vars

\* C30: a TaskEnded event that names task T of executor E, fed while T is Running, is
\* accepted and moves T to Ended, and leaves every other task of E as it was.
C30_TaskEndedEndsNamedTask ==
    [][ (Fed /\ last'.item.kind = "EmbassyTaskEnded") =>
            \A c \in CoreIds, e \in ExecIds, t \in TaskIds :
                (/\ last'.item.executor_id = e /\ last'.item.task_id = t
                 /\ HasTaskTrace(c, e, t)
                 /\ Task(c, e, t).state = TaskRunning) =>
                    /\ ~last'.desync
                    /\ Task(c, e, t)'.state = TaskEnded
                    /\ \A u \in Tasks(c, e) \ {t} : Task(c, e, u)' = Task(c, e, u)
      ]_vars

\* C32: when a DataLoss event has desynchronized the engine and the next item fed is an
\* ExecutorPollStart, core 0 holds an ExecutorTrace for the executor it names.
C32_PollStartAfterDataLossCreatesExecutor ==
    [][ (Fed /\ last.item.kind = "DataLossEvent" /\ last.desync
             /\ last'.item.kind = "EmbassyExecutorPollStart") =>
            last'.item.executor_id \in Executors(0)'
      ]_vars

\* C35: no executor is in Scheduling or Idle while one of its tasks is Running.
C35_NoRunningTaskUnlessPolling ==
    \A c \in CoreIds : \A e \in Executors(c) :
        Executor(c, e).current_state.k \in {"Scheduling", "Idle"} =>
            TasksIn(Executor(c, e), "Running") = {}

\* C36: when TaskExecBegin(T) and TaskEnded(T) of executor E have been processed (E is
\* Polling(T), T is Ended) and TaskExecEnd(E) is fed next, the engine does not
\* desynchronize, T stays Ended and E goes to Scheduling.
C36_TaskCompletionSequence ==
    [][ \A c \in CoreIds, e \in ExecIds, t \in TaskIds :
          (/\ Fed
           /\ last.item.kind = "EmbassyTaskEnded" /\ ~last.desync
           /\ last.item.executor_id = e /\ last.item.task_id = t
           /\ last'.item.kind = "EmbassyTaskExecEnd"
           /\ last'.item.executor_id = e /\ last'.item.core = c
           /\ e \in Executors(c)
           /\ Executor(c, e).current_state = ExecutorPolling(t)
           /\ t \in Tasks(c, e)
           /\ Task(c, e, t).state = TaskEnded) =>
              /\ ~last'.desync
              /\ e \in Executors(c)'
              /\ Executor(c, e)'.current_state = ExecutorScheduling
              /\ Task(c, e, t)'.state = TaskEnded
      ]_vars

\* C37: a MonitorEnd on a core with no running executor and an open monitor on the
\* core-level stack sends a Complete for the monitor on top of the stack whose dur is
\* the end timestamp minus the start timestamp, and does not panic.
C37_CoreMonitorDuration ==
    [][ \A c \in CoreIds :
          (/\ Fed
           /\ last'.item.kind = "MonitorEnd" /\ last'.item.core = c
           /\ RunningExecutors(Core(c)) = {}
           /\ Core(c).monitor_stack # <<>>) =>
              /\ ~panicked'
              /\ \E i \in 1..Len(out') :
                    out'[i] = Complete(Head(Core(c).monitor_stack).name, CoreOverviewPid,
                                       core_id_to_tid(c), Head(Core(c).monitor_stack).ts,
                                       latest_timestamp' - Head(Core(c).monitor_stack).ts)
      ]_vars

\* the events that a core ignores when it does not know the executor they name
IgnoredIfUnknown ==
    {"EmbassyTaskReady", "EmbassyTaskExecEnd", "EmbassyExecutorPollStart",
     "EmbassyExecutorIdle", "EmbassyTaskCreated", "EmbassyTaskEnded"}
C39_MonitorEndClosesItsOwnStart ==
    [][ \A c \in CoreIds, m \in MonitorIds :
          (/\ Fed
           /\ last.item.kind = "MonitorStart" /\ last.item.core = c
           /\ last.item.monitor_id = m /\ ~last.desync
           /\ last'.item.kind = "MonitorEnd" /\ last'.item.core = c) =>
              \A i \in 1..Len(out') :
                  out'[i].ph = "X" =>
                      /\ m \in DOMAIN monitor_code_names
                      /\ out'[i].name = monitor_code_names[m]
      ]_vars

(***************************************************************************)
(* Replay of the preemption scenario on a fresh engine                     *)
(***************************************************************************)
\* an item of a scenario and the timestamp the decoder hands to feed with it
Scripted(item, ts) == [item |-> item, ts |-> ts]

\* the preemption scenario on one core: executor e1 polls task t1, which opens monitor m
\* (its type definition arrives with the first use); executor e2 interrupts, polls task
\* t2 and goes idle; then the monitor is closed, the poll of t1 ends and e1 goes idle.
\* The items are step microseconds apart, the first at 0.
PreemptionScenario(c, e1, t1, e2, t2, m, step) ==
    << Scripted(Item("EmbassyExecutorPollStart", Unused, e1, Unused, Unused), 0),
       Scripted(Item("EmbassyTaskExecBegin", c, e1, t1, Unused), step),
       Scripted(Item("ScopeMonitor", Unused, Unused, Unused, m), 2 * step),
       Scripted(Item("MonitorStart", c, Unused, Unused, m), 2 * step),
       Scripted(Item("EmbassyExecutorPollStart", Unused, e2, Unused, Unused), 3 * step),
       Scripted(Item("EmbassyTaskExecBegin", c, e2, t2, Unused), 4 * step),
       Scripted(Item("EmbassyTaskExecEnd", c, e2, Unused, Unused), 5 * step),
       Scripted(Item("EmbassyExecutorIdle", Unused, e2, Unused, Unused), 6 * step),
       Scripted(Item("MonitorEnd", c, Unused, Unused, Unused), 7 * step),
       Scripted(Item("EmbassyTaskExecEnd", c, e1, Unused, Unused), 8 * step),
       Scripted(Item("EmbassyExecutorIdle", Unused, e1, Unused, Unused), 9 * step) >>

\* preemption of a task with two nested monitors: executor e2 has polled task t2 and is
\* idle; executor e1 polls task t1, which opens monitor 1 and inside it monitor 2;
\* executor e2 interrupts, finds nothing to poll and goes idle; then both monitors are
\* closed.
NestedPreemptionScenario(c, e1, t1, e2, t2, step) ==
    << Scripted(Item("EmbassyExecutorPollStart", Unused, e2, Unused, Unused), 0),
       Scripted(Item("EmbassyTaskExecBegin", c, e2, t2, Unused), step),
       Scripted(Item("EmbassyTaskExecEnd", c, e2, Unused, Unused), 2 * step),
       Scripted(Item("EmbassyExecutorIdle", Unused, e2, Unused, Unused), 3 * step),
       Scripted(Item("EmbassyExecutorPollStart", Unused, e1, Unused, Unused), 4 * step),
       Scripted(Item("EmbassyTaskExecBegin", c, e1, t1, Unused), 5 * step),
       Scripted(Item("ScopeMonitor", Unused, Unused, Unused, 1), 6 * step),
       Scripted(Item("MonitorStart", c, Unused, Unused, 1), 6 * step),
       Scripted(Item("ScopeMonitor", Unused, Unused, Unused, 2), 7 * step),
       Scripted(Item("MonitorStart", c, Unused, Unused, 2), 7 * step),
       Scripted(Item("EmbassyExecutorPollStart", Unused, e2, Unused, Unused), 8 * step),
       Scripted(Item("EmbassyExecutorIdle", Unused, e2, Unused, Unused), 9 * step),
       Scripted(Item("MonitorEnd", c, Unused, Unused, Unused), 10 * step),
       Scripted(Item("MonitorEnd", c, Unused, Unused, Unused), 11 * step) >>

\* the executors and tasks of the replayed scenarios; S2 is the scenario with executors
\* 1 and 2 and tasks 100 and 200 on core 0, 10 microseconds apart
ScenarioExecutors == {1, 2, 3}
ScenarioTasks == {<<100, 200>>, <<1, 2>>}
ScenarioSteps == {10, 40}
S2 == PreemptionScenario(0, 1, 100, 2, 200, 1, 10)
ScenarioExecutorPairs == {e \in ScenarioExecutors \X ScenarioExecutors : e[1] # e[2]}
PreemptionScenarios ==
    {PreemptionScenario(c, e[1], t[1], e[2], t[2], 1, step) :
        c \in CoreIds, e \in ScenarioExecutorPairs, t \in ScenarioTasks,
        step \in ScenarioSteps}
NestedPreemptionScenarios ==
    {NestedPreemptionScenario(c, e[1], t[1], e[2], t[2], step) :
        c \in CoreIds, e \in ScenarioExecutorPairs, t \in ScenarioTasks,
        step \in ScenarioSteps}
Scenarios == PreemptionScenarios \cup NestedPreemptionScenarios

\* the item the replay feeds next
NextItem == script[fed + 1]
Scripts(kind) == fed < Len(script) /\ NextItem.item.kind = kind

ReplayExecutorPollStart ==
    /\ Scripts("EmbassyExecutorPollStart")
    /\ \E e \in {NextItem.item.executor_id}, ts \in {NextItem.ts} :
       \E x0 \in Find(RunningExecutors(core_0) \ {e}),
          x1 \in Find(RunningExecutors(core_1) \ {e}) :
       \E t0 \in Find(TasksOf(core_0, x0, "Running")),
          t1 \in Find(TasksOf(core_1, x1, "Running")) :
          TracingInstance_feed(NextItem.item, ts,
              Both(CoreTracing_on_executor_poll_start(0, core_0, e, ts, x0, t0),
                   CoreTracing_on_executor_poll_start(1, core_1, e, ts, x1, t1), core_1))

ReplayExecutorIdle ==
    /\ Scripts("EmbassyExecutorIdle")
    /\ \E e \in {NextItem.item.executor_id}, ts \in {NextItem.ts} :
       \E x0 \in Find(PreemptedBy(core_0, e)), x1 \in Find(PreemptedBy(core_1, e)) :
       \E t0 \in Find(TasksOf(core_0, x0, "Preempted")),
          t1 \in Find(TasksOf(core_1, x1, "Preempted")) :
          TracingInstance_feed(NextItem.item, ts,
              Both(CoreTracing_on_executor_idle(0, core_0, e, ts, x0, t0),
                   CoreTracing_on_executor_idle(1, core_1, e, ts, x1, t1), core_1))

ReplayTaskExecBegin ==
    /\ Scripts("EmbassyTaskExecBegin")
    /\ \E it \in {NextItem.item}, ts \in {NextItem.ts} :
          TracingInstance_feed(it, ts,
              One(it.core,
                  CoreTracing_on_task_exec_begin(Core(it.core), it.executor_id, it.task_id, ts),
                  core_0, core_1))

ReplayTaskExecEnd ==
    /\ Scripts("EmbassyTaskExecEnd")
    /\ \E it \in {NextItem.item}, ts \in {NextItem.ts} :
          TracingInstance_feed(it, ts,
              One(it.core, CoreTracing_on_task_exec_end(Core(it.core), it.executor_id, ts),
                  core_0, core_1))

ReplayScopeMonitor ==
    /\ Scripts("ScopeMonitor")
    /\ \E m \in {NextItem.item.monitor_id} :
          TracingInstance_feed(NextItem.item, NextItem.ts,
              [Ok0 EXCEPT !.names = (m :> MonitorName(m)) @@ @])

ReplayMonitorStart ==
    /\ Scripts("MonitorStart")
    /\ \E it \in {NextItem.item}, ts \in {NextItem.ts} :
       \E x \in Find(RunningExecutors(Core(it.core))) :
          TracingInstance_feed(it, ts,
              IF it.monitor_id \in DOMAIN monitor_code_names
              THEN One(it.core,
                       CoreOk(CoreTracing_monitor_start(Core(it.core),
                                  monitor_code_names[it.monitor_id], ts, x), <<>>),
                       core_0, core_1)
              ELSE Ok0)

ReplayMonitorEnd ==
    /\ Scripts("MonitorEnd")
    /\ \E it \in {NextItem.item}, ts \in {NextItem.ts}, overflow_checks \in BOOLEAN :
       \E x \in Find(RunningExecutors(Core(it.core))) :
          TracingInstance_feed(it, ts,
              One(it.core, CoreTracing_monitor_end(it.core, Core(it.core), ts, x, overflow_checks),
                  core_0, core_1))

InitReplay ==
    /\ TracingInstance_new
    /\ script \in Scenarios
    /\ items_to_feed = Len(script)
    /\ RestUnused

NextReplay ==
    \/ ReplayExecutorPollStart
    \/ ReplayExecutorIdle
    \/ ReplayTaskExecBegin
    \/ ReplayTaskExecEnd
    \/ ReplayScopeMonitor
    \/ ReplayMonitorStart
    \/ ReplayMonitorEnd

SpecReplay == InitReplay /\ [][NextReplay]_vars

\* the task that the scenario's first executor polls, on the scenario's core
ScenarioCore == script[2].item.core
FirstExecutor == script[2].item.executor_id
FirstTask == script[2].item.task_id
FirstTaskTrace == Core(ScenarioCore).executors[FirstExecutor].tasks[FirstTask]

\* C26: in the replay of S2 on a fresh engine, after the PollStart of executor 2 at 30
\* task 100 is Preempted(by=2) and monitor "a" was sent as Complete ts=20 dur=10; after
\* the ExecutorIdle of executor 2 at 60 task 100 is Running with "a" reopened at 60; and
\* the MonitorEnd at 70 sends Complete "a" ts=60 dur=10.
C26_S2Replay ==
    script = S2 =>
        /\ fed = 5 =>
              /\ FirstTaskTrace.state = TaskPreempted(2)
              /\ InOut(Complete("a", 1, 100, 20, 10))
        /\ fed = 8 =>
              /\ FirstTaskTrace.state = TaskRunning
              /\ FirstTaskTrace.current_monitors = <<[name |-> "a", ts |-> 60]>>
        /\ fed = 9 => InOut(Complete("a", 1, 100, 60, 10))

\* the task with the nested monitors, and the timestamp of its resume
NestedTask == script[6].item
NestedTaskTrace ==
    Core(NestedTask.core).executors[NestedTask.executor_id].tasks[NestedTask.task_id]
ResumeTimestamp == script[12].ts

\* C27: a task preempted with monitor "b" open inside monitor "a" has, once resumed,
\* both reopened at the resume timestamp with "b" innermost: the first MonitorEnd after
\* the resume completes "b" and the second completes "a".
C27_NestedMonitorsResumeInOrder ==
    script \in NestedPreemptionScenarios =>
        /\ fed = 12 =>
              NestedTaskTrace.current_monitors =
                  <<[name |-> "a", ts |-> ResumeTimestamp], [name |-> "b", ts |-> ResumeTimestamp]>>
        /\ fed = 13 =>
              out = <<Complete("b", NestedTask.executor_id, NestedTask.task_id,
                               ResumeTimestamp, latest_timestamp - ResumeTimestamp)>>
        /\ fed = 14 =>
              out = <<Complete("a", NestedTask.executor_id, NestedTask.task_id,
                               ResumeTimestamp, latest_timestamp - ResumeTimestamp)>>


(***************************************************************************)
(* The handlers of a TaskTracing and of an ExecutorTracing, called on an   *)
(* object of its own (task.rs, executor.rs)                                *)
(***************************************************************************)
\* calls made on the two objects in one run
MaxCalls == 4
\* microseconds between two calls
CallStep == 10

\* the variables the direct calls do not touch
other_than_handlers ==
    <<tracing_vars, decoder_vars, codec_vars, registry_vars, target_vars, esp_vars,
      writer_vars>>

\* the timestamp handed to the next call
CallTimestamp == unit.now + CallStep

\* a call of a TaskTracing handler on the task (task 1 of executor 1); r is its result
TaskCall(handler, r) ==
    /\ unit.calls < MaxCalls
    /\ unit' = [unit EXCEPT !.task = r.t,
                            !.out = r.out,
                            !.call = [on |-> "task", handler |-> handler, task_id |-> 1,
                                      err |-> r.err],
                            !.now = CallTimestamp,
                            !.calls = @ + 1]
    /\ UNCHANGED other_than_handlers

\* a call of an ExecutorTracing handler on the executor (executor 1); r is its result
ExecutorCall(handler, task_id, r) ==
    /\ unit.calls < MaxCalls
    /\ unit' = [unit EXCEPT !.executor = r.e,
                            !.out = r.out,
                            !.call = [on |-> "executor", handler |-> handler,
                                      task_id |-> task_id, err |-> r.err],
                            !.now = CallTimestamp,
                            !.calls = @ + 1]
    /\ UNCHANGED other_than_handlers

CallTaskOnReady ==
    TaskCall("on_ready", TaskTracing_on_ready(1, 1, unit.task, CallTimestamp))
CallTaskOnExecBegin ==
    TaskCall("on_exec_begin", TaskTracing_on_exec_begin(1, 1, unit.task, CallTimestamp))
CallTaskOnExecEnd ==
    TaskCall("on_exec_end", TaskTracing_on_exec_end(1, 1, unit.task, CallTimestamp))
CallTaskOnEnd ==
    TaskCall("on_end", TaskTracing_on_end(1, 1, unit.task, CallTimestamp))
CallTaskOnPreempted ==
    TaskCall("on_preempted", TaskTracing_on_preempted(1, 1, unit.task, CallTimestamp, 2))
CallTaskOnResumed ==
    TaskCall("on_resumed", TaskTracing_on_resumed(1, 1, unit.task, CallTimestamp))
CallTaskOnMonitorStart ==
    /\ Len(unit.task.current_monitors) < MaxMonitorDepth
    /\ \E m \in MonitorIds :
          TaskCall("on_monitor_start",
                   TaskOk(TaskTracing_on_monitor_start(unit.task, MonitorName(m), CallTimestamp),
                          <<>>))

CallExecutorOnTaskReady ==
    \E t \in TaskIds :
        ExecutorCall("on_task_ready", t,
                     ExecutorTracing_on_task_ready(1, unit.executor, t, CallTimestamp))
CallExecutorOnTaskExecBegin ==
    \E t \in TaskIds :
        ExecutorCall("on_task_exec_begin", t,
                     ExecutorTracing_on_task_exec_begin(1, unit.executor, t, CallTimestamp))
CallExecutorOnTaskExecEnd ==
    ExecutorCall("on_task_exec_end", 0,
                 ExecutorTracing_on_task_exec_end(1, unit.executor, CallTimestamp))
CallExecutorOnTaskEnd ==
    \E t \in TaskIds :
        ExecutorCall("on_task_end", t,
                     ExecutorTracing_on_task_end(1, unit.executor, CallTimestamp, t))

\* the task comes from one of the three constructors of TaskTracing, the executor from
\* ExecutorTracing::new_polling
InitHandlers ==
    /\ \E t \in TaskIds :
       \E made \in {TaskTracing_new_spawned(1, 1, 0), TaskTracing_new_ready(1, 1, 0),
                    TaskTracing_new_exec_begin(1, 1, 0)} :
          unit = [executor |-> ExecutorTracing_new_polling(1, 0, t).e, task |-> made.t,
                  call |-> NoCall, out |-> <<>>, now |-> 0, calls |-> 0]
    /\ TracingUnused /\ TraceDataDecoder_new /\ CodecUnused /\ RegistryUnused /\ TargetUnused
    /\ PipeUnused /\ WriterUnused

NextHandlers ==
    \/ CallTaskOnReady
    \/ CallTaskOnExecBegin
    \/ CallTaskOnExecEnd
    \/ CallTaskOnEnd
    \/ CallTaskOnPreempted
    \/ CallTaskOnResumed
    \/ CallTaskOnMonitorStart
    \/ CallExecutorOnTaskReady
    \/ CallExecutorOnTaskExecBegin
    \/ CallExecutorOnTaskExecEnd
    \/ CallExecutorOnTaskEnd

SpecHandlers == InitHandlers /\ [][NextHandlers]_vars

\* the transitions a task in the given state does not admit
IllegalTaskCall(handler, t) ==
    CASE handler = "on_exec_begin" -> t.state.k # "Ready"
      [] handler \in {"on_exec_end", "on_end", "on_preempted"} -> t.state.k # "Running"
      [] handler = "on_resumed" -> t.state.k # "Preempted"
      [] OTHER -> FALSE
\* TaskExecBegin of a tracked task that is not Ready, or while another task is Running
IllegalExecBegin(e, task_id) ==
    \/ task_id \in DOMAIN e.tasks /\ e.tasks[task_id].state.k # "Ready"
    \/ TasksIn(e, "Running") \ {task_id} # {}
\* TaskExecEnd while the polled task is not Running
IllegalExecEnd(e) ==
    /\ e.current_state.k = "Polling"
    /\ e.current_state.task_id \in DOMAIN e.tasks
    /\ e.tasks[e.current_state.task_id].state.k # "Running"
BeginOrEndOn(recs, pid, tid) ==
    \E i \in 1..Len(recs) : recs[i].ph \in {"B", "E"} /\ Lane(recs[i]) = <<pid, tid>>
SameStateAndFlag(before, after) ==
    /\ after.state = before.state
    /\ after.reawoken_while_running = before.reawoken_while_running

\* C31: an illegal task transition (on_exec_begin of a task that is not Ready, or
\* TaskExecBegin while another task of the executor is Running; on_exec_end, on_end or
\* on_preempted of a task that is not Running; on_resumed of a task that is not
\* Preempted) returns an error, leaves the task's state and re-awoken flag as they were
\* and sends no Begin or End record to the task's lane.
C31_IllegalTransitionIsRejected ==
    [][ unit'.calls = unit.calls + 1 =>
          /\ (unit'.call.on = "task" /\ IllegalTaskCall(unit'.call.handler, unit.task)) =>
                /\ unit'.call.err
                /\ SameStateAndFlag(unit.task, unit'.task)
                /\ ~BeginOrEndOn(unit'.out, 1, 1)
          /\ (/\ unit'.call.on = "executor"
              /\ \/ /\ unit'.call.handler = "on_task_exec_begin"
                    /\ IllegalExecBegin(unit.executor, unit'.call.task_id)
                 \/ /\ unit'.call.handler = "on_task_exec_end"
                    /\ IllegalExecEnd(unit.executor)) =>
                /\ unit'.call.err
                /\ DOMAIN unit'.executor.tasks = DOMAIN unit.executor.tasks
                /\ \A t \in DOMAIN unit.executor.tasks :
                      SameStateAndFlag(unit.executor.tasks[t], unit'.executor.tasks[t])
                /\ \A t \in TaskIds : ~BeginOrEndOn(unit'.out, 1, t)
      ]_vars

\* C31 witness: a task made Running by new_exec_begin was re-awoken and opened a
\* monitor, and on_resumed was then called on it: the call returned an error and the
\* task is Running, flagged and holds its monitor.
C31_Witness ==
    /\ unit.call = [on |-> "task", handler |-> "on_resumed", task_id |-> 1, err |-> TRUE]
    /\ unit.task.state = TaskRunning
    /\ unit.task.reawoken_while_running
    /\ unit.task.current_monitors # <<>>
    /\ unit.out = <<>>


(***************************************************************************)
(* monitor_scoped! and monitor_value!: the records of a site's first uses   *)
(* (rustmeter-beacon-target: monitors.rs)                                  *)
(***************************************************************************)
\* the variables the macros' writes do not touch
other_than_sent ==
    <<tracing_vars, decoder_vars, codec_vars, registry_vars, site_vars, rtt_vars, emitters,
      extra_vars>>

\* site 1 is a monitor_scoped! site, the other sites are monitor_value! sites
SiteDefinition(site) == IF site = 1 THEN "ScopeMonitor" ELSE "ValueMonitor"
SiteUse(site) == IF site = 1 THEN "MonitorStart" ELSE "MonitorValue"

\* a record as write_tracing_event hands it on: its kind, the id it carries (local_id as
\* u8; the ids of the model are below 256), and the site and thread it comes from
SiteRecord(kind, t) ==
    [kind |-> kind, id |-> callers[t].result[1], site |-> callers[t].site, by |-> t]
Handed(kind, t) == \E i \in 1..Len(sent) : sent[i] = SiteRecord(kind, t)
\* get_static_id_by_registry! has returned to thread t
HasId(t) == callers[t].pc = "idle" /\ callers[t].result # <<>>
\* thread t is in no macro: it has left the body of the last one it entered
MacroDone(t) ==
    callers[t].pc = "idle" /\ (callers[t].result # <<>> => Handed(SiteUse(callers[t].site), t))

\* thread t comes to a site it has not used before
MacroEnters(t, site) ==
    /\ MacroDone(t)
    /\ site \notin callers[t].seen
    /\ SiteEnters(t, site)

\* if registered_newly { write_tracing_event(EventPayload::TypeDefinition(payload)) }
write_TypeDefinition(t) ==
    /\ HasId(t)
    /\ callers[t].result[2]
    /\ ~Handed(SiteDefinition(callers[t].site), t)
    /\ sent' = Append(sent, SiteRecord(SiteDefinition(callers[t].site), t))
    /\ UNCHANGED other_than_sent

\* write_tracing_event(MonitorStartCoreN { monitor_id }) of monitor_scoped!,
\* write_tracing_event(MonitorValue { value_id, value }) of monitor_value!
write_MonitorUse(t) ==
    /\ HasId(t)
    /\ callers[t].result[2] => Handed(SiteDefinition(callers[t].site), t)
    /\ ~Handed(SiteUse(callers[t].site), t)
    /\ sent' = Append(sent, SiteRecord(SiteUse(callers[t].site), t))
    /\ UNCHANGED other_than_sent

NextMonitors ==
    \/ \E t \in Threads, site \in Sites : MacroEnters(t, site)
    \/ \E t \in Threads : SiteLoads(t)
    \/ \E t \in Threads : NumericRegistry_allocate_new_id(t)
    \/ \E t \in Threads : SiteCompareExchange(t)
    \/ \E t \in Threads : write_TypeDefinition(t)
    \/ \E t \in Threads : write_MonitorUse(t)

SpecMonitors == InitSites /\ [][NextMonitors]_vars

\* C33: every MonitorStart or MonitorValue record handed to the transport comes after a
\* TypeDefinition record that carries its id, also when two contexts use the site for
\* the first time concurrently.
C33_TypeDefinitionPrecedesUse ==
    \A i \in 1..Len(sent) :
        sent[i].kind \in {"MonitorStart", "MonitorValue"} =>
            \E j \in 1..(i - 1) :
                /\ sent[j].kind \in {"ScopeMonitor", "ValueMonitor"}
                /\ sent[j].id = sent[i].id


(***************************************************************************)
(* Pipe transport of the ESP targets                                       *)
(* (rustmeter-beacon-target: espressif/tracing_esp.rs)                     *)
(***************************************************************************)
\* bytes the pipe of the model holds (4096 on the target)
PipeBytes == 16

\* the variables the pipe transport does not touch
other_than_esp ==
    <<tracing_vars, decoder_vars, codec_vars, registry_vars, site_vars, rtt_free, rtt_ledger,
      rtt_last, emitters, handler_vars, writer_vars>>

RECURSIVE Pipe_len(_)
Pipe_len(pipe) == IF pipe = <<>> THEN 0 ELSE Len(Head(pipe)) + Pipe_len(Tail(pipe))
Pipe_free_capacity(pipe) == PipeBytes - Pipe_len(pipe)

\* write_all: Err(Full) if the data does not fit the free capacity, else try_write until
\* all of it is in the pipe
write_all(pipe, data) ==
    IF Len(data) > Pipe_free_capacity(pipe)
    THEN [is_err |-> TRUE, pipe |-> pipe]
    ELSE [is_err |-> FALSE, pipe |-> Append(pipe, data)]

\* the first block of write_tracing_data: skipped when the counter is 0; else the counter
\* is swapped to 0, the DataLoss record is built in `buffer`, write_all is called with
\* `data`, and the count is added back if that failed
EspWriteDataLoss(previously_dropped, data) ==
    IF previously_dropped = U32(0, 0)
    THEN [pipe |-> OUT_PIPE, counter |-> U32(0, 0)]
    ELSE [pipe |-> write_all(OUT_PIPE, data).pipe,
          counter |-> IF write_all(OUT_PIPE, data).is_err
                      THEN u32_wrapping_add(U32(0, 0), previously_dropped)
                      ELSE U32(0, 0)]

\* write_tracing_data(data) on the pipe (NEW_DATA_SIGNAL, which wakes the publisher, is
\* left out)
TracingEsp_write_tracing_data(data) ==
    \E loss \in {EspWriteDataLoss(DROPPED_EVENTS_COUNTER, data)} :
    \E original \in {write_all(loss.pipe, data)} :
        /\ DROPPED_EVENTS_COUNTER' =
              IF original.is_err THEN u32_wrapping_add(loss.counter, U32(0, 1))
              ELSE loss.counter
        /\ OUT_PIPE' = original.pipe

\* write_tracing_event(event) on an ESP target, elapsed microseconds after the last one
EspWriteTracingEvent(event, elapsed) ==
    /\ rtt_calls < MaxEmissions
    /\ rtt_calls' = rtt_calls + 1
    /\ clock_us' = clock_us + elapsed
    /\ LAST_TIMESTAMP' = clock_us + elapsed
    /\ \E buffer \in {write_tracing_event(
                         TimeDelta_from_us(clock_us + elapsed - LAST_TIMESTAMP), event)} :
          /\ sent' = Append(sent, BufferWriter_as_slice(buffer))
          /\ TracingEsp_write_tracing_data(BufferWriter_as_slice(buffer))
    /\ UNCHANGED other_than_esp

\* the publisher task reads the oldest record out of the pipe
PublisherReads ==
    /\ OUT_PIPE # <<>>
    /\ OUT_PIPE' = Tail(OUT_PIPE)
    /\ UNCHANGED <<clock_us, LAST_TIMESTAMP, DROPPED_EVENTS_COUNTER, rtt_calls, sent,
                   other_than_esp>>

InitEsp == InitSites

NextEsp ==
    \/ \E event \in RttEvents, elapsed \in RttElapsed : EspWriteTracingEvent(event, elapsed)
    \/ PublisherReads

SpecEsp == InitEsp /\ [][NextEsp]_vars

\* C34: a write_tracing_data call that finds the dropped-events counter at n > 0 and the
\* pipe with room for a DataLoss record and the pending record puts DataLoss{n} and then
\* the pending record, once, into the pipe.
C34_DataLossThenEventOnce ==
    [][ (/\ Len(sent') = Len(sent) + 1
         /\ DROPPED_EVENTS_COUNTER # U32(0, 0)
         /\ Len(DataLossRecord(DROPPED_EVENTS_COUNTER)) + Len(sent'[Len(sent')])
               <= Pipe_free_capacity(OUT_PIPE)) =>
            OUT_PIPE' = OUT_PIPE \o <<DataLossRecord(DROPPED_EVENTS_COUNTER), sent'[Len(sent')]>>
      ]_vars

\* ---------------------------------------------------------------------------------
\* The Perfetto writer thread (perfetto_backend/file_writer.rs) and the shutdown path
\* of main. The trace events in the channel are counted, not told apart, and every
\* write to the file is taken to succeed.
\* ---------------------------------------------------------------------------------

\* the trace events the engine sends after the metadata of TracingInstance::new
MaxTraceEvents == 2

\* the Metadata events TracingInstance::new sends before the writer thread is spawned
InitialMetadata == 4

other_than_writer ==
    <<tracing_vars, decoder_vars, codec_vars, registry_vars, target_vars, handler_vars,
      esp_vars>>

FileHeader == "{\"traceEvents\": ["
FileSeparator == ",\n"
FileFooter == "\n]}\n"
\* "\t" + trace_event.to_json() of some trace event
FileEvent == "\t{..}"

\* the trace events written to the file so far
EventsWritten == Cardinality({i \in 1..Len(perfetto_writer.file) :
                                 perfetto_writer.file[i] = FileEvent})

\* the Ok arm of the match on recv(): the separator unless this is the first event, then
\* the event
WriteTraceEvent(w) ==
    [w EXCEPT !.first_event = FALSE,
              !.file = @ \o (IF w.first_event THEN <<>> ELSE <<FileSeparator>>)
                         \o <<FileEvent>>]

\* after the loop: the closing bracket is written and the thread returns Ok
Finalise(w) == [w EXCEPT !.pc = "done", !.file = Append(@, FileFooter)]

\* std::thread::spawn in spawn_perfetto_file_writer, and the thread up to the loop: the
\* file is created and the header written
PerfettoWriterSpawned ==
    /\ perfetto_writer.pc = "unspawned"
    /\ perfetto_writer' = [perfetto_writer EXCEPT !.pc = "load_exit_flag",
                                                  !.file = <<FileHeader>>]
    /\ UNCHANGED <<exit_flag, trace_events, other_than_writer>>

\* the loop condition `!exit_flag.load(SeqCst)`
PerfettoWriterLoadsExitFlag ==
    /\ perfetto_writer.pc = "load_exit_flag"
    /\ perfetto_writer' = IF exit_flag THEN Finalise(perfetto_writer)
                          ELSE [perfetto_writer EXCEPT !.pc = "recv"]
    /\ UNCHANGED <<exit_flag, trace_events, other_than_writer>>

\* trace_event_recver.recv() returns: Ok with the oldest event of the channel, or Err
\* once the channel is empty and every sender is dropped. It blocks otherwise.
PerfettoWriterRecv ==
    /\ perfetto_writer.pc = "recv"
    /\ \/ /\ trace_events.queued > 0
          /\ trace_events' = [trace_events EXCEPT !.queued = @ - 1]
          /\ perfetto_writer' =
                [WriteTraceEvent(perfetto_writer) EXCEPT !.pc = "load_exit_flag"]
       \/ /\ trace_events.queued = 0 /\ ~trace_events.sender_alive
          /\ perfetto_writer' = Finalise(perfetto_writer)
          /\ UNCHANGED trace_events
    /\ UNCHANGED <<exit_flag, other_than_writer>>

\* the CTRL-C handler main installs stores true into the exit flag
CtrlC ==
    /\ ~exit_flag
    /\ exit_flag' = TRUE
    /\ UNCHANGED <<trace_events, perfetto_writer, other_than_writer>>

\* the engine thread sends a trace event
EngineSendsTraceEvent ==
    /\ trace_events.sender_alive
    /\ trace_events.queued + EventsWritten < InitialMetadata + MaxTraceEvents
    /\ trace_events' = [trace_events EXCEPT !.queued = @ + 1]
    /\ UNCHANGED <<exit_flag, perfetto_writer, other_than_writer>>

\* the engine thread leaves its loop because its input channels are closed; the
\* TracingInstance and with it every sender of the channel is dropped
EngineThreadEnds ==
    /\ trace_events.sender_alive
    /\ trace_events' = [trace_events EXCEPT !.sender_alive = FALSE]
    /\ UNCHANGED <<exit_flag, perfetto_writer, other_than_writer>>

InitWriter ==
    /\ TracingUnused /\ TraceDataDecoder_new /\ CodecUnused /\ RegistryUnused
    /\ TargetUnused /\ HandlersUnused /\ PipeUnused
    /\ exit_flag = FALSE
    /\ trace_events = [queued |-> InitialMetadata, sender_alive |-> TRUE]
    /\ perfetto_writer = [pc |-> "unspawned", first_event |-> TRUE, file |-> <<>>]

PerfettoWriterStep ==
    \/ PerfettoWriterSpawned
    \/ PerfettoWriterLoadsExitFlag
    \/ PerfettoWriterRecv

NextWriter ==
    \/ PerfettoWriterSpawned
    \/ PerfettoWriterLoadsExitFlag
    \/ PerfettoWriterRecv
    \/ CtrlC
    \/ EngineSendsTraceEvent
    \/ EngineThreadEnds

\* The writer thread is scheduled whenever it can take a step; nothing obliges the user
\* to press CTRL-C, the engine to send or the engine thread to end.
SpecWriter == InitWriter /\ [][NextWriter]_vars /\ WF_vars(PerfettoWriterStep)

\* C40: once the exit flag is set, the writer thread eventually has written the closing
\* bracket and terminated, whether or not a trace event arrives or the sender is dropped.
C40_WriterTerminatesAfterExit ==
    exit_flag ~> (/\ perfetto_writer.pc = "done"
                  /\ perfetto_writer.file[Len(perfetto_writer.file)] = FileFooter)

====
